---- MODULE Spec2Model ----
(***************************************************************************)
(* Verification model of the order book engine of "rust-td 4"              *)
(* (src/rust-td 4/src/orderbook.rs, interfaces.rs).                        *)
(*                                                                         *)
(* Indices are 0-based as in the Rust source; a TLA+ sequence is 1-based,  *)
(* so the level at source index i is book[i + 1].  A level is the pair     *)
(* <<price, quantity>>, as the tuple (Price, Quantity) of the source.      *)
(* Option<T> is modelled as a sequence: None is <<>>, Some(x) is <<x>>.    *)
(***************************************************************************)
EXTENDS Integers, Sequences, FiniteSets, TLC

(***************************************************************************)
(* Bounds.  The source fixes MAX_LEVELS at 1024, Price at i64 and Quantity *)
(* at u64; the model keeps the same structure on scaled-down ranges.       *)
(***************************************************************************)
\* capacity of one side (const MAX_LEVELS, scaled down from 1024)
MAX_LEVELS == 3

\* Price = i64, scaled: the representable prices are -PriceBound .. PriceBound-1
PriceBound == 4

\* Quantity = u64, scaled: quantities and totals live in 0 .. QuantityModulus-1
QuantityModulus == 5

PRICE_MIN == 0 - PriceBound
PRICE_MAX == PriceBound - 1

\* prices the driver sends: the two extremes of the range and two around zero
Prices == {PRICE_MIN, 0 - 1, 1, PRICE_MAX}

\* quantities the driver sends: zero, the smallest and a half-range quantity
Quantities == {0, 1, QuantityModulus \div 2}

Sides == {"Bid", "Ask"}

None == <<>>
Some(x) == <<x>>

VARIABLES
    bids,              \* ArrayVec<(Price, Quantity), MAX_LEVELS>, descending
    asks,              \* ArrayVec<(Price, Quantity), MAX_LEVELS>, ascending
    best_bid,          \* Option<Price>
    second_best_bid,   \* Option<Price>
    best_ask,          \* Option<Price>
    second_best_ask,   \* Option<Price>
    total_bid_qty,     \* Quantity
    total_ask_qty,     \* Quantity
    overflow_checks,   \* build profile: TRUE = arithmetic overflow panics, FALSE = it wraps
    panicked,          \* a call of apply_update has panicked and unwound
    last               \* the last update applied and the branch it took (StepSpec: the frame of the call under way)

vars == <<bids, asks, best_bid, second_best_bid, best_ask, second_best_ask,
          total_bid_qty, total_ask_qty, overflow_checks, panicked, last>>

\* the engine object as one value
self == [bids |-> bids, asks |-> asks,
         best_bid |-> best_bid, second_best_bid |-> second_best_bid,
         best_ask |-> best_ask, second_best_ask |-> second_best_ask,
         total_bid_qty |-> total_bid_qty, total_ask_qty |-> total_ask_qty,
         overflow_checks |-> overflow_checks, panic |-> panicked]

(***************************************************************************)
(* Scale.  The engine runs on the scaled ranges above, except in the       *)
(* specification of the benchmark's warm-up and timed updates, which runs  *)
(* it with the constants of the source: there the capacity is 1024 and     *)
(* every integer of the model lies far inside u64 and i64, so no sum or    *)
(* difference leaves them (a negative total stands for its residue).       *)
(***************************************************************************)
\* the frame in last is that of a run at the scale of the source
FullScale == last.type = "run at full scale"

\* const MAX_LEVELS: usize = 1024
SOURCE_MAX_LEVELS == 1024

\* the capacity of one side
Capacity == IF FullScale THEN SOURCE_MAX_LEVELS ELSE MAX_LEVELS

\* n is no Quantity: it lies above u64::MAX
above_u64(n) == IF FullScale THEN FALSE ELSE n >= QuantityModulus

\* n as a Quantity after a wrap
wrap_u64(n) == IF FullScale THEN n ELSE (n + QuantityModulus) % QuantityModulus

\* n is no Price: it lies outside i64
outside_i64(n) == IF FullScale THEN FALSE ELSE n > PRICE_MAX \/ n < PRICE_MIN

(***************************************************************************)
(* Update values (interfaces.rs)                                           *)
(***************************************************************************)
Set(price, quantity, side) ==
    [type |-> "Set", price |-> price, quantity |-> quantity, side |-> side]

Remove(price, side) ==
    [type |-> "Remove", price |-> price, quantity |-> 0, side |-> side]

(***************************************************************************)
(* Binary searches                                                         *)
(***************************************************************************)
RECURSIVE locate_bid_loop(_, _, _, _)
locate_bid_loop(book, price, l, r) ==
    IF l < r
    THEN LET m == (l + r) \div 2
             mid == book[m + 1][1]
         IN IF mid = price THEN [found |-> TRUE, idx |-> m]
            ELSE IF mid < price THEN locate_bid_loop(book, price, l, m)
            ELSE locate_bid_loop(book, price, m + 1, r)
    ELSE [found |-> FALSE, idx |-> l]

\* variant reporting a match whenever the insertion point lies inside the book
locate_bid_lower_bound(book, price) ==
    LET loc == locate_bid_loop(book, price, 0, Len(book))
    IN [found |-> loc.idx < Len(book), idx |-> loc.idx]

locate_bid(book, price) == locate_bid_loop(book, price, 0, Len(book))

RECURSIVE locate_ask_loop(_, _, _, _)
locate_ask_loop(book, price, l, r) ==
    IF l < r
    THEN LET m == (l + r) \div 2
             mid == book[m + 1][1]
         IN IF mid = price THEN [found |-> TRUE, idx |-> m]
            ELSE IF mid < price THEN locate_ask_loop(book, price, m + 1, r)
            ELSE locate_ask_loop(book, price, l, m)
    ELSE [found |-> FALSE, idx |-> l]

locate_ask(book, price) == locate_ask_loop(book, price, 0, Len(book))

(***************************************************************************)
(* ArrayVec primitives and the in-place shifts                             *)
(***************************************************************************)
\* variant with the capacity off by one
is_full_off_by_one(book) == Len(book) = MAX_LEVELS + 1

\* ArrayVec::is_full: len == CAP
is_full(book) == Len(book) = Capacity

\* book.push(val) panics on a full ArrayVec
push_panics(book) == is_full(book)

\* variant without the shift: the value is only pushed
insert_at_no_shift(book, idx, val) == Append(book, val)

\* push, shift [idx, len) one slot right, write val at idx
insert_at(book, idx, val) ==
    SubSeq(book, 1, idx) \o <<val>> \o SubSeq(book, idx + 1, Len(book))

\* variant without the final pop: the last level stays behind
remove_at_no_pop(book, idx) ==
    [removed |-> book[idx + 1],
     book |-> SubSeq(book, 1, idx) \o SubSeq(book, idx + 2, Len(book)) \o <<book[Len(book)]>>]

\* read the level at idx, shift (idx, len) one slot left, pop
remove_at(book, idx) ==
    [removed |-> book[idx + 1],
     book |-> SubSeq(book, 1, idx) \o SubSeq(book, idx + 2, Len(book))]

\* book.pop()
pop(book) == SubSeq(book, 1, Len(book) - 1)

(***************************************************************************)
(* Quantity arithmetic of the running totals (u64 += and -=)               *)
(***************************************************************************)
Panic(s) == [s EXCEPT !.panic = TRUE]

\* s.<field> += d
add_assign(s, field, d) ==
    IF above_u64(s[field] + d) /\ s.overflow_checks
    THEN Panic(s)
    ELSE [s EXCEPT ![field] = wrap_u64(s[field] + d)]

\* s.<field> -= d
sub_assign(s, field, d) ==
    IF d > s[field] /\ s.overflow_checks
    THEN Panic(s)
    ELSE [s EXCEPT ![field] = wrap_u64(s[field] - d)]

(***************************************************************************)
(* Best / second-best rescans                                              *)
(***************************************************************************)
RECURSIVE recompute_top2_loop(_, _, _, _, _)
recompute_top2_loop(book, i, is_bid, top1, top2) ==
    IF i > Len(book) THEN <<top1, top2>>
    ELSE LET p == book[i][1]
             q == book[i][2]
         IN IF q = 0 THEN recompute_top2_loop(book, i + 1, is_bid, top1, top2)
            ELSE IF top1 = None
                 THEN recompute_top2_loop(book, i + 1, is_bid, Some(p), top2)
            ELSE LET t1 == top1[1] IN
                 IF (is_bid /\ p > t1) \/ (~is_bid /\ p < t1)
                 THEN recompute_top2_loop(book, i + 1, is_bid, Some(p), top1)
                 ELSE IF (IF top2 = None THEN TRUE
                          ELSE (is_bid /\ p > top2[1]) \/ (~is_bid /\ p < top2[1]))
                         /\ p # t1
                 THEN recompute_top2_loop(book, i + 1, is_bid, top1, Some(p))
                 ELSE recompute_top2_loop(book, i + 1, is_bid, top1, top2)

\* variant scanning with the ranking of the other side
recompute_top2_flipped(book, is_bid) == recompute_top2_loop(book, 1, ~is_bid, None, None)

recompute_top2(book, is_bid) == recompute_top2_loop(book, 1, is_bid, None, None)

RECURSIVE second_best_scan(_, _, _, _, _)
second_best_scan(book, i, b, is_bid, candidate) ==
    IF i > Len(book) THEN candidate
    ELSE LET p == book[i][1]
             q == book[i][2]
         IN IF q = 0 \/ p = b THEN second_best_scan(book, i + 1, b, is_bid, candidate)
            ELSE IF candidate = None
                 THEN second_best_scan(book, i + 1, b, is_bid, Some(p))
            ELSE IF (is_bid /\ p > candidate[1]) \/ (~is_bid /\ p < candidate[1])
                 THEN second_best_scan(book, i + 1, b, is_bid, Some(p))
                 ELSE second_best_scan(book, i + 1, b, is_bid, candidate)

\* variant that never rescans
maybe_update_second_best_stale(book, best, current_second, price, is_bid) == current_second

maybe_update_second_best(book, best, current_second, price, is_bid) ==
    IF (IF current_second = None THEN FALSE ELSE current_second[1] = price)
    THEN IF best = None THEN None
         ELSE second_best_scan(book, 1, best[1], is_bid, None)
    ELSE current_second

(***************************************************************************)
(* apply_update, one operator per match arm                                *)
(***************************************************************************)
\* Update::Set, Side::Bid
set_bid(s, price, quantity) ==
    LET loc == locate_bid(s.bids, price)
        idx == loc.idx
    IN
    IF loc.found
    THEN LET prev == s.bids[idx + 1][2] IN
         IF quantity = 0
         THEN LET rm == remove_at(s.bids, idx)
                  s1 == sub_assign([s EXCEPT !.bids = rm.book], "total_bid_qty", rm.removed[2])
                  removed_best == IF s1.best_bid = None THEN FALSE ELSE s1.best_bid[1] = price
              IN IF s1.panic THEN s1
                 ELSE IF removed_best
                 THEN LET t == recompute_top2(s1.bids, TRUE)
                      IN [s1 EXCEPT !.best_bid = t[1], !.second_best_bid = t[2]]
                 ELSE [s1 EXCEPT !.second_best_bid =
                          maybe_update_second_best(s1.bids, s1.best_bid, s1.second_best_bid, price, TRUE)]
         ELSE LET s1 == [s EXCEPT !.bids[idx + 1] = <<price, quantity>>]
              IN IF quantity >= prev
                 THEN add_assign(s1, "total_bid_qty", quantity - prev)
                 ELSE sub_assign(s1, "total_bid_qty", prev - quantity)
    ELSE IF quantity = 0 THEN s
    ELSE IF is_full(s.bids) /\ Len(s.bids) > 0 /\ idx >= Len(s.bids) THEN s
    ELSE IF is_full(s.bids) /\ Len(s.bids) = 0 THEN Panic(s)
    ELSE LET s1 == IF is_full(s.bids)
                   THEN LET dropped == s.bids[Len(s.bids)][2]
                            d == sub_assign(s, "total_bid_qty", dropped)
                        IN IF d.panic THEN d ELSE [d EXCEPT !.bids = pop(d.bids)]
                   ELSE s
         IN IF s1.panic THEN s1
            ELSE IF push_panics(s1.bids) THEN Panic(s1)
            ELSE LET s2 == add_assign([s1 EXCEPT !.bids = insert_at(s1.bids, idx, <<price, quantity>>)],
                                      "total_bid_qty", quantity)
                 IN IF s2.panic THEN s2
                    ELSE IF s2.best_bid = None
                    THEN [s2 EXCEPT !.best_bid = Some(price), !.second_best_bid = None]
                    ELSE LET b == s2.best_bid[1] IN
                         IF price > b
                         THEN [s2 EXCEPT !.second_best_bid = s2.best_bid, !.best_bid = Some(price)]
                         ELSE IF (IF s2.second_best_bid = None THEN TRUE
                                  ELSE price > s2.second_best_bid[1]) /\ price # b
                         THEN [s2 EXCEPT !.second_best_bid = Some(price)]
                         ELSE s2

\* Update::Set, Side::Ask
set_ask(s, price, quantity) ==
    LET loc == locate_ask(s.asks, price)
        idx == loc.idx
    IN
    IF loc.found
    THEN LET prev == s.asks[idx + 1][2] IN
         IF quantity = 0
         THEN LET rm == remove_at(s.asks, idx)
                  s1 == sub_assign([s EXCEPT !.asks = rm.book], "total_ask_qty", rm.removed[2])
                  removed_best == IF s1.best_ask = None THEN FALSE ELSE s1.best_ask[1] = price
              IN IF s1.panic THEN s1
                 ELSE IF removed_best
                 THEN LET t == recompute_top2(s1.asks, FALSE)
                      IN [s1 EXCEPT !.best_ask = t[1], !.second_best_ask = t[2]]
                 ELSE [s1 EXCEPT !.second_best_ask =
                          maybe_update_second_best(s1.asks, s1.best_ask, s1.second_best_ask, price, FALSE)]
         ELSE LET s1 == [s EXCEPT !.asks[idx + 1] = <<price, quantity>>]
              IN IF quantity >= prev
                 THEN add_assign(s1, "total_ask_qty", quantity - prev)
                 ELSE sub_assign(s1, "total_ask_qty", prev - quantity)
    ELSE IF quantity = 0 THEN s
    ELSE IF is_full(s.asks) /\ Len(s.asks) > 0 /\ idx >= Len(s.asks) THEN s
    ELSE IF is_full(s.asks) /\ Len(s.asks) = 0 THEN Panic(s)
    ELSE LET s1 == IF is_full(s.asks)
                   THEN LET dropped == s.asks[Len(s.asks)][2]
                            d == sub_assign(s, "total_ask_qty", dropped)
                        IN IF d.panic THEN d ELSE [d EXCEPT !.asks = pop(d.asks)]
                   ELSE s
         IN IF s1.panic THEN s1
            ELSE IF push_panics(s1.asks) THEN Panic(s1)
            ELSE LET s2 == add_assign([s1 EXCEPT !.asks = insert_at(s1.asks, idx, <<price, quantity>>)],
                                      "total_ask_qty", quantity)
                 IN IF s2.panic THEN s2
                    ELSE IF s2.best_ask = None
                    THEN [s2 EXCEPT !.best_ask = Some(price), !.second_best_ask = None]
                    ELSE LET a == s2.best_ask[1] IN
                         IF price < a
                         THEN [s2 EXCEPT !.second_best_ask = s2.best_ask, !.best_ask = Some(price)]
                         ELSE IF (IF s2.second_best_ask = None THEN TRUE
                                  ELSE price < s2.second_best_ask[1]) /\ price # a
                         THEN [s2 EXCEPT !.second_best_ask = Some(price)]
                         ELSE s2

\* variant that removes the level and leaves the caches alone
remove_bid_keep_caches(s, price) ==
    LET loc == locate_bid(s.bids, price)
    IN IF loc.found
       THEN LET rm == remove_at(s.bids, loc.idx)
            IN sub_assign([s EXCEPT !.bids = rm.book], "total_bid_qty", rm.removed[2])
       ELSE s

\* Update::Remove, Side::Bid
remove_bid(s, price) ==
    LET loc == locate_bid(s.bids, price)
        idx == loc.idx
    IN
    IF loc.found
    THEN LET rm == remove_at(s.bids, idx)
             s1 == sub_assign([s EXCEPT !.bids = rm.book], "total_bid_qty", rm.removed[2])
             removed_best == IF s1.best_bid = None THEN FALSE ELSE s1.best_bid[1] = price
         IN IF s1.panic THEN s1
            ELSE IF removed_best
            THEN LET t == recompute_top2(s1.bids, TRUE)
                 IN [s1 EXCEPT !.best_bid = t[1], !.second_best_bid = t[2]]
            ELSE [s1 EXCEPT !.second_best_bid =
                     maybe_update_second_best(s1.bids, s1.best_bid, s1.second_best_bid, price, TRUE)]
    ELSE s

\* Update::Remove, Side::Ask
remove_ask(s, price) ==
    LET loc == locate_ask(s.asks, price)
        idx == loc.idx
    IN
    IF loc.found
    THEN LET rm == remove_at(s.asks, idx)
             s1 == sub_assign([s EXCEPT !.asks = rm.book], "total_ask_qty", rm.removed[2])
             removed_best == IF s1.best_ask = None THEN FALSE ELSE s1.best_ask[1] = price
         IN IF s1.panic THEN s1
            ELSE IF removed_best
            THEN LET t == recompute_top2(s1.asks, FALSE)
                 IN [s1 EXCEPT !.best_ask = t[1], !.second_best_ask = t[2]]
            ELSE [s1 EXCEPT !.second_best_ask =
                     maybe_update_second_best(s1.asks, s1.best_ask, s1.second_best_ask, price, FALSE)]
    ELSE s

\* variant whose inserting Set leaves the cached second-best as it was
apply_update_stale_second(s, update) ==
    IF update.type = "Set"
    THEN IF update.side = "Bid"
         THEN [set_bid(s, update.price, update.quantity) EXCEPT
                  !.second_best_bid = IF locate_bid(s.bids, update.price).found
                                      THEN @ ELSE s.second_best_bid]
         ELSE [set_ask(s, update.price, update.quantity) EXCEPT
                  !.second_best_ask = IF locate_ask(s.asks, update.price).found
                                      THEN @ ELSE s.second_best_ask]
    ELSE IF update.side = "Bid"
         THEN remove_bid(s, update.price)
         ELSE remove_ask(s, update.price)

\* variant whose Remove arms are dispatched to the other side
apply_update_crossed_remove(s, update) ==
    IF update.type = "Set"
    THEN IF update.side = "Bid"
         THEN set_bid(s, update.price, update.quantity)
         ELSE set_ask(s, update.price, update.quantity)
    ELSE IF update.side = "Bid"
         THEN remove_ask(s, update.price)
         ELSE remove_bid(s, update.price)

apply_update(s, update) ==
    IF update.type = "Set"
    THEN IF update.side = "Bid"
         THEN set_bid(s, update.price, update.quantity)
         ELSE set_ask(s, update.price, update.quantity)
    ELSE IF update.side = "Bid"
         THEN remove_bid(s, update.price)
         ELSE remove_ask(s, update.price)

(***************************************************************************)
(* Queries                                                                 *)
(***************************************************************************)
\* i64 subtraction a - b, wrapped into PRICE_MIN .. PRICE_MAX
wrapping_sub(a, b) ==
    IF FullScale THEN a - b
    ELSE ((a - b + 3 * PriceBound) % (2 * PriceBound)) - PriceBound

\* ask - bid leaves the i64 range
spread_overflows(s) ==
    /\ s.best_ask # None
    /\ s.best_bid # None
    /\ outside_i64(s.best_ask[1] - s.best_bid[1])

\* get_spread panics: the subtraction overflows in a build with overflow checks
get_spread_panics(s) == spread_overflows(s) /\ s.overflow_checks

get_spread(s) ==
    IF s.best_ask # None /\ s.best_bid # None
    THEN Some(wrapping_sub(s.best_ask[1], s.best_bid[1]))
    ELSE None

get_best_bid(s) == s.best_bid

get_best_ask(s) == s.best_ask

\* variant searching the bids with the ascending search
get_quantity_at_one_search(s, price, side) ==
    LET book == IF side = "Bid" THEN s.bids ELSE s.asks
        loc == locate_ask(book, price)
    IN IF loc.found THEN Some(book[loc.idx + 1][2]) ELSE None

get_quantity_at(s, price, side) ==
    IF side = "Bid"
    THEN LET loc == locate_bid(s.bids, price)
         IN IF loc.found THEN Some(s.bids[loc.idx + 1][2]) ELSE None
    ELSE LET loc == locate_ask(s.asks, price)
         IN IF loc.found THEN Some(s.asks[loc.idx + 1][2]) ELSE None

\* variant that takes one level too few
get_top_levels_short(s, side, n) ==
    LET book == IF side = "Bid" THEN s.bids ELSE s.asks
        k == IF n < Len(book) THEN n ELSE Len(book)
    IN SubSeq(book, 1, k - 1)

get_top_levels(s, side, n) ==
    IF side = "Bid"
    THEN SubSeq(s.bids, 1, IF n < Len(s.bids) THEN n ELSE Len(s.bids))
    ELSE SubSeq(s.asks, 1, IF n < Len(s.asks) THEN n ELSE Len(s.asks))

get_total_quantity(s, side) ==
    IF side = "Bid" THEN s.total_bid_qty ELSE s.total_ask_qty

(***************************************************************************)
(* The branch of apply_update an update takes in a given engine state      *)
(***************************************************************************)
Branch(s, update) ==
    LET book == IF update.side = "Bid" THEN s.bids ELSE s.asks
        loc == IF update.side = "Bid" THEN locate_bid(book, update.price)
               ELSE locate_ask(book, update.price)
        best == IF update.side = "Bid" THEN s.best_bid ELSE s.best_ask
        second == IF update.side = "Bid" THEN s.second_best_bid ELSE s.second_best_ask
    IN IF loc.found
       THEN IF update.type = "Remove" \/ update.quantity = 0
            THEN IF best = Some(update.price) THEN "removed best"
                 ELSE IF second = Some(update.price) THEN "removed second-best"
                 ELSE "removed"
            ELSE "overwritten"
       ELSE IF update.type = "Remove" \/ update.quantity = 0 THEN "absent"
       ELSE IF is_full(book)
            THEN IF Len(book) > 0 /\ loc.idx >= Len(book) THEN "rejected"
                 ELSE IF loc.idx = Len(book) - 1 THEN "evicted, worst slot taken"
                 ELSE "evicted"
            ELSE "inserted"

(***************************************************************************)
(* State machine: a driver applies updates to one engine                   *)
(***************************************************************************)
\* variant that starts with a stale bid total
Init_stale_total ==
    /\ bids = <<>>
    /\ asks = <<>>
    /\ best_bid = None
    /\ second_best_bid = None
    /\ best_ask = None
    /\ second_best_ask = None
    /\ total_bid_qty = 1
    /\ total_ask_qty = 0
    /\ overflow_checks \in BOOLEAN
    /\ panicked = FALSE
    /\ last = [type |-> "new", side |-> "Bid", branch |-> "new"]

Init ==
    /\ bids = <<>>
    /\ asks = <<>>
    /\ best_bid = None
    /\ second_best_bid = None
    /\ best_ask = None
    /\ second_best_ask = None
    /\ total_bid_qty = 0
    /\ total_ask_qty = 0
    /\ overflow_checks \in BOOLEAN
    /\ panicked = FALSE
    /\ last = [type |-> "new", side |-> "Bid", branch |-> "new"]

Commit(r) ==
    /\ bids' = r.bids
    /\ asks' = r.asks
    /\ best_bid' = r.best_bid
    /\ second_best_bid' = r.second_best_bid
    /\ best_ask' = r.best_ask
    /\ second_best_ask' = r.second_best_ask
    /\ total_bid_qty' = r.total_bid_qty
    /\ total_ask_qty' = r.total_ask_qty
    /\ panicked' = r.panic
    /\ UNCHANGED overflow_checks

Apply(update) ==
    /\ ~panicked
    /\ Commit(apply_update(self, update))
    /\ last' = [type |-> update.type, side |-> update.side, branch |-> Branch(self, update)]

ApplySet ==
    \E price \in Prices, quantity \in Quantities, side \in Sides :
        Apply(Set(price, quantity, side))

ApplyRemove ==
    \E price \in Prices, side \in Sides :
        Apply(Remove(price, side))

Next == ApplySet \/ ApplyRemove

Spec == Init /\ [][Next]_vars

(***************************************************************************)
(* Properties                                                              *)
(***************************************************************************)
Book(s, side) == IF side = "Bid" THEN s.bids ELSE s.asks

PricesOf(book) == {book[i][1] : i \in 1..Len(book)}

RECURSIVE SumQuantities(_)
SumQuantities(book) ==
    IF book = <<>> THEN 0 ELSE Head(book)[2] + SumQuantities(Tail(book))

\* p out-ranks w on the given side
OutRanks(side, p, w) == IF side = "Bid" THEN p > w ELSE p < w

TypeOK ==
    /\ bids \in Seq(Prices \X (0..QuantityModulus - 1))
    /\ asks \in Seq(Prices \X (0..QuantityModulus - 1))
    /\ total_bid_qty \in 0..QuantityModulus - 1
    /\ total_ask_qty \in 0..QuantityModulus - 1
    /\ panicked \in BOOLEAN

\* C1: after any sequence of Set and Remove updates each side is strictly
\* sorted in ranking order (bids descending, asks ascending), holds no two
\* levels of one price and no level of quantity 0.
C1_SortedUniqueNonZero ==
    /\ \A i \in 1..Len(bids) - 1 : bids[i][1] > bids[i + 1][1]
    /\ \A i \in 1..Len(asks) - 1 : asks[i][1] < asks[i + 1][1]
    /\ \A i, j \in 1..Len(bids) : bids[i][1] = bids[j][1] => i = j
    /\ \A i, j \in 1..Len(asks) : asks[i][1] = asks[j][1] => i = j
    /\ \A i \in 1..Len(bids) : bids[i][2] # 0
    /\ \A i \in 1..Len(asks) : asks[i][2] # 0

\* a level was just inserted in the middle of a side holding several levels
C1_Witness ==
    /\ last.type = "Set" /\ last.branch = "inserted"
    /\ Len(bids) = MAX_LEVELS /\ Len(asks) >= 2

\* C2: in every state a caller can query, get_total_quantity(side) is the
\* exact sum of the quantities stored on that side.
C2_TotalIsExactSum ==
    ~panicked =>
        /\ get_total_quantity(self, "Bid") = SumQuantities(bids)
        /\ get_total_quantity(self, "Ask") = SumQuantities(asks)

\* C3: in every state a caller can query, get_best_bid() is absent iff the bid
\* side is empty and otherwise is the price of the first bid level, which is
\* >= every bid price; symmetrically for get_best_ask() with <=.
C3_BestIsFirstLevel ==
    ~panicked =>
        /\ (get_best_bid(self) = None) <=> (bids = <<>>)
        /\ (get_best_ask(self) = None) <=> (asks = <<>>)
        /\ bids # <<>> =>
              /\ get_best_bid(self) = Some(bids[1][1])
              /\ \A p \in PricesOf(bids) : bids[1][1] >= p
        /\ asks # <<>> =>
              /\ get_best_ask(self) = Some(asks[1][1])
              /\ \A p \in PricesOf(asks) : asks[1][1] <= p

\* the best level of each side was set after worse ones, and a removal of a
\* best level has just been repaired by a rescan
C3_Witness ==
    /\ ~panicked
    /\ last.branch = "removed best"
    /\ Len(bids) >= 2 /\ Len(asks) >= 2
    /\ best_bid = Some(bids[1][1]) /\ best_ask = Some(asks[1][1])

\* C4: in every state a caller can query, the cached second-best of a side is
\* absent iff the side holds fewer than two levels, otherwise it is the price
\* of the second level; it differs from the cached best and ranks strictly
\* worse than it.
C4_SecondBestIsSecondLevel ==
    ~panicked =>
        /\ (second_best_bid = None) <=> (Len(bids) < 2)
        /\ (second_best_ask = None) <=> (Len(asks) < 2)
        /\ Len(bids) >= 2 =>
              /\ second_best_bid = Some(bids[2][1])
              /\ second_best_bid # best_bid
              /\ best_bid # None /\ best_bid[1] > second_best_bid[1]
        /\ Len(asks) >= 2 =>
              /\ second_best_ask = Some(asks[2][1])
              /\ second_best_ask # best_ask
              /\ best_ask # None /\ best_ask[1] < second_best_ask[1]

\* a full side after an eviction, with a second-best on both sides
C4_Witness ==
    /\ ~panicked
    /\ last.branch = "evicted"
    /\ Len(bids) = MAX_LEVELS /\ Len(asks) >= 2
    /\ second_best_bid # None /\ second_best_ask # None

\* the engine after update has been applied to the current engine
After(update) == apply_update(self, update)

\* side holds MAX_LEVELS levels and does not hold price
FullWithout(side, price) ==
    /\ Len(Book(self, side)) = MAX_LEVELS
    /\ price \notin PricesOf(Book(self, side))

WorstPrice(side) == Book(self, side)[Len(Book(self, side))][1]

\* insertion index of price on side, as the engine's binary search computes it
LocateIdx(side, price) ==
    IF side = "Bid" THEN locate_bid(bids, price).idx ELSE locate_ask(asks, price).idx

\* C5 as stated: from any state, Set{p, q, s} with q > 0 followed at once by
\* get_quantity_at(p, s) returns Some(q).
C5_RoundTrip_Original ==
    ~panicked =>
        \A p \in Prices, q \in Quantities \ {0}, sd \in Sides :
            get_quantity_at(After(Set(p, q, sd)), p, sd) = Some(q)

\* C5 amended: Set{p, q, s} with q > 0 followed at once by get_quantity_at(p, s)
\* returns Some(q), unless side s holds MAX_LEVELS levels, none at p, and p
\* ranks worse than the worst of them: then the Set is dropped and the query
\* returns absent.
C5_RoundTrip ==
    ~panicked =>
        \A p \in Prices, q \in Quantities \ {0}, sd \in Sides :
            IF FullWithout(sd, p) /\ OutRanks(sd, WorstPrice(sd), p)
            THEN get_quantity_at(After(Set(p, q, sd)), p, sd) = None
            ELSE get_quantity_at(After(Set(p, q, sd)), p, sd) = Some(q)

\* a Set has just stored a level in the middle of a full side, and the query
\* returns the quantity of that level
C5_Witness ==
    /\ last.type = "Set" /\ last.branch \in {"inserted", "overwritten", "evicted"}
    /\ Len(Book(self, last.side)) = MAX_LEVELS
    /\ \E p \in Prices : get_quantity_at(self, p, last.side) = Some(QuantityModulus \div 2)

\* C6: neither side ever holds more than MAX_LEVELS levels.
C6_CapacityBound ==
    /\ Len(bids) <= MAX_LEVELS
    /\ Len(asks) <= MAX_LEVELS

\* both sides are at capacity and a further insert has just been attempted
C6_Witness ==
    /\ last.branch \in {"evicted", "evicted, worst slot taken", "rejected"}
    /\ Len(bids) = MAX_LEVELS /\ Len(asks) = MAX_LEVELS

\* C7: a Set with non-zero quantity for a price ranking strictly worse than the
\* worst level of a side holding MAX_LEVELS levels is dropped without panic:
\* levels, level count, worst price, caches and totals are unchanged.
C7_CapacityRejection ==
    ~panicked =>
        \A p \in Prices, q \in Quantities \ {0}, sd \in Sides :
            (FullWithout(sd, p) /\ OutRanks(sd, WorstPrice(sd), p))
            => /\ After(Set(p, q, sd)) = self
               /\ ~After(Set(p, q, sd)).panic

\* a Set has just been rejected at capacity
C7_Witness ==
    /\ last.type = "Set" /\ last.branch = "rejected"
    /\ Len(Book(self, last.side)) = MAX_LEVELS
    /\ ~panicked

\* C8 as stated: a Set with non-zero quantity q for an absent price out-ranking
\* the worst level of a side holding MAX_LEVELS levels evicts exactly the worst
\* level, stores the new level at its sorted position, keeps the level count
\* and changes the side total by exactly q minus the evicted quantity.
C8_CapacityEviction ==
    ~panicked =>
        \A p \in Prices, q \in Quantities \ {0}, sd \in Sides :
            (/\ FullWithout(sd, p)
             /\ OutRanks(sd, p, WorstPrice(sd))
             /\ ~After(Set(p, q, sd)).panic)
            => LET old == Book(self, sd)
                   new == Book(After(Set(p, q, sd)), sd)
                   evicted == old[Len(old)]
               IN /\ Len(new) = MAX_LEVELS
                  /\ new = insert_at(pop(old), LocateIdx(sd, p), <<p, q>>)
                  /\ PricesOf(new) = (PricesOf(old) \ {evicted[1]}) \cup {p}
                  /\ get_total_quantity(After(Set(p, q, sd)), sd)
                       = get_total_quantity(self, sd) + q - evicted[2]

\* C9 as stated: at capacity, a Set with non-zero quantity for an absent price
\* whose insertion index is >= len - 1 is dropped and the book is unchanged.
C9_DropAtWorstSlot_Original ==
    ~panicked =>
        \A p \in Prices, q \in Quantities \ {0}, sd \in Sides :
            (FullWithout(sd, p) /\ LocateIdx(sd, p) >= Len(Book(self, sd)) - 1)
            => After(Set(p, q, sd)) = self

\* C9 amended: at capacity, a Set with non-zero quantity for an absent price is
\* dropped, the book unchanged, when its insertion index is past the last
\* level (index >= len); with insertion index len - 1, the slot of the worst
\* level, it is not dropped: the worst level is evicted and the new level
\* takes its slot.
C9_DropPastWorstSlot ==
    ~panicked =>
        \A p \in Prices, q \in Quantities \ {0}, sd \in Sides :
            FullWithout(sd, p)
            => LET old == Book(self, sd)
                   new == Book(After(Set(p, q, sd)), sd)
                   idx == LocateIdx(sd, p)
               IN /\ idx >= Len(old) => After(Set(p, q, sd)) = self
                  /\ idx = Len(old) - 1 =>
                        /\ Len(new) = Len(old)
                        /\ new[Len(new)] = <<p, q>>
                        /\ SubSeq(new, 1, Len(new) - 1) = SubSeq(old, 1, Len(old) - 1)

\* a Set has just taken the slot of the evicted worst level of a full side,
\* and the price left out of the side would now be dropped
C9_Witness ==
    /\ last.type = "Set" /\ last.branch = "evicted, worst slot taken"
    /\ ~panicked
    /\ LET book == Book(self, last.side)
       IN /\ Len(book) = MAX_LEVELS
          /\ \E p \in Prices \ PricesOf(book) : LocateIdx(last.side, p) >= Len(book)

\* C10: from any state, for any price and side, Set{p, 0, s} and Remove{p, s}
\* yield identical engines (levels, caches and totals of both sides).
C10_SetZeroIsRemove ==
    ~panicked =>
        \A p \in Prices, sd \in Sides :
            After(Set(p, 0, sd)) = After(Remove(p, sd))

\* a Set with quantity 0 has just removed a level, and more levels that either
\* update can remove remain on both sides
C10_Witness ==
    /\ last.type = "Set" /\ last.branch = "removed"
    /\ Len(bids) >= 2 /\ Len(asks) >= 2
    /\ ~panicked

\* the updates the driver can send
Updates ==
    {Set(p, q, sd) : p \in Prices, q \in Quantities, sd \in Sides}
        \cup {Remove(p, sd) : p \in Prices, sd \in Sides}

\* every price of the range, sent by the driver or not
AllPrices == PRICE_MIN..PRICE_MAX

\* C11: from any state, Remove{p, s} applied twice in a row leaves the engine
\* in the same state as applied once (levels, caches and totals of both sides);
\* the queries read nothing but that state, so they answer the same.
C11_RemoveIdempotent ==
    ~panicked =>
        \A p \in Prices, sd \in Sides :
            LET once == After(Remove(p, sd))
                twice == apply_update(once, Remove(p, sd))
            IN /\ twice = once
               /\ get_quantity_at(twice, p, sd) = get_quantity_at(once, p, sd)
               /\ get_top_levels(twice, sd, MAX_LEVELS) = get_top_levels(once, sd, MAX_LEVELS)
               /\ get_total_quantity(twice, sd) = get_total_quantity(once, sd)
               /\ get_spread(twice) = get_spread(once)

\* a Remove has just removed a level and left others on its side, so that a
\* second Remove of any price of the side is a choice between both cases
C11_Witness ==
    /\ last.type = "Remove" /\ last.branch = "removed"
    /\ Len(Book(self, last.side)) = MAX_LEVELS - 1
    /\ ~panicked

\* C12: Remove{p, s} and Set{p, 0, s} for a price absent from side s change
\* nothing (levels, caches and totals of both sides) and do not panic.
C12_AbsentRemovalIsNoOp ==
    ~panicked =>
        \A p \in Prices, sd \in Sides :
            p \notin PricesOf(Book(self, sd))
            => /\ After(Remove(p, sd)) = self
               /\ After(Set(p, 0, sd)) = self
               /\ ~After(Remove(p, sd)).panic
               /\ ~After(Set(p, 0, sd)).panic

\* a removal of an absent price has just been applied to a side holding levels
\* on both sides of it
C12_Witness ==
    /\ last.branch = "absent"
    /\ ~panicked
    /\ LET book == Book(self, last.side)
       IN /\ Len(book) >= 2
          /\ \E p \in Prices \ PricesOf(book) :
                /\ OutRanks(last.side, p, book[Len(book)][1])
                /\ OutRanks(last.side, book[1][1], p)

\* price p occurs in no answer of get_quantity_at and get_top_levels on side sd
Gone(s, p, sd) ==
    /\ get_quantity_at(s, p, sd) = None
    /\ \A n \in 0..MAX_LEVELS + 1 :
          LET top == get_top_levels(s, sd, n)
          IN \A i \in 1..Len(top) : top[i][1] # p

\* price p is absent from get_quantity_at and from the longest listing of
\* side sd, of which get_top_levels(s, N) is a prefix for every N
GoneFromListing(s, p, sd) ==
    /\ get_quantity_at(s, p, sd) = None
    /\ p \notin PricesOf(get_top_levels(s, sd, MAX_LEVELS + 1))

\* C13: Set{p, 0, s} or Remove{p, s} on a side holding price p leaves
\* get_quantity_at(p, s) absent and p out of get_top_levels(s, N) for every N,
\* and a price that side s does not hold stays out under every later update
\* other than a Set{p, q > 0, s}.
C13_RemovedUntilSetAgain ==
    ~panicked =>
        /\ \A sd \in Sides : \A p \in PricesOf(Book(self, sd)) :
              /\ Gone(After(Set(p, 0, sd)), p, sd)
              /\ Gone(After(Remove(p, sd)), p, sd)
        /\ \A u \in Updates :
              LET next == After(u)
              IN \A sd \in Sides : \A p \in Prices \ PricesOf(Book(self, sd)) :
                    ~(u.type = "Set" /\ u.price = p /\ u.side = sd /\ u.quantity > 0)
                    => GoneFromListing(next, p, sd)

\* the worst level of a side has just been removed and the rest of the side
\* is still there
C13_Witness ==
    /\ last.branch = "removed"
    /\ ~panicked
    /\ LET book == Book(self, last.side)
       IN /\ Len(book) >= 1
          /\ \E p \in Prices : Gone(self, p, last.side) /\ OutRanks(last.side, book[Len(book)][1], p)

\* the other side
Other(side) == IF side = "Bid" THEN "Ask" ELSE "Bid"

\* the cached best and second-best of a side
Caches(s, side) ==
    IF side = "Bid" THEN <<s.best_bid, s.second_best_bid>>
    ELSE <<s.best_ask, s.second_best_ask>>

\* levels, caches and total of one side
SideState(s, side) == <<Book(s, side), Caches(s, side), get_total_quantity(s, side)>>

\* the quantity stored at price p in book
QuantityOf(book, p) == book[CHOOSE i \in 1..Len(book) : book[i][1] = p][2]

\* C14 as stated: Set{p, q > 0, s} for a price present on side s changes the
\* side total by exactly q minus the old quantity and leaves the level count,
\* the order of the levels, the caches of the side and the whole other side
\* unchanged.
C14_InPlaceOverwrite ==
    ~panicked =>
        \A sd \in Sides : \A p \in PricesOf(Book(self, sd)) : \A q \in Quantities \ {0} :
            LET next == After(Set(p, q, sd))
                old == Book(self, sd)
                new == Book(next, sd)
            IN ~next.panic
               => /\ get_total_quantity(next, sd)
                       = get_total_quantity(self, sd) + q - QuantityOf(old, p)
                  /\ Len(new) = Len(old)
                  /\ \A i \in 1..Len(old) :
                        /\ new[i][1] = old[i][1]
                        /\ new[i][2] = IF old[i][1] = p THEN q ELSE old[i][2]
                  /\ Caches(next, sd) = Caches(self, sd)
                  /\ SideState(next, Other(sd)) = SideState(self, Other(sd))

\* C15 as stated: in every state a caller can query, get_spread() returns
\* best_ask - best_bid when both sides hold levels and absent when either is
\* empty.
C15_SpreadIsDifference ==
    ~panicked =>
        /\ ~get_spread_panics(self)
        /\ IF bids # <<>> /\ asks # <<>>
           THEN get_spread(self) = Some(get_best_ask(self)[1] - get_best_bid(self)[1])
           ELSE get_spread(self) = None

\* C16: a newly created engine answers absent to get_best_bid, get_best_ask,
\* get_spread and every get_quantity_at, 0 to get_total_quantity on both sides
\* and the empty sequence to every get_top_levels.
C16_NewBookIsEmpty ==
    last.type = "new" =>
        /\ get_best_bid(self) = None
        /\ get_best_ask(self) = None
        /\ get_spread(self) = None /\ ~get_spread_panics(self)
        /\ \A sd \in Sides :
              /\ get_total_quantity(self, sd) = 0
              /\ \A n \in 0..MAX_LEVELS + 1 : get_top_levels(self, sd, n) = <<>>
              /\ \A p \in AllPrices : get_quantity_at(self, p, sd) = None

\* the engine as new() returns it, before any update
C16_Witness ==
    /\ last.type = "new"
    /\ bids = <<>> /\ asks = <<>>
    /\ ~panicked

\* C17: get_top_levels(side, n) is the first min(n, level count) levels of the
\* side, in ranking order starting from the best; it is empty when n = 0 or
\* the side is empty.
C17_TopLevelsIsPrefix ==
    \A sd \in Sides : \A n \in 0..MAX_LEVELS + 1 :
        LET book == Book(self, sd)
            top == get_top_levels(self, sd, n)
        IN /\ Len(top) = IF n < Len(book) THEN n ELSE Len(book)
           /\ \A i \in 1..Len(top) : top[i] = book[i]
           /\ \A i \in 1..Len(top) - 1 : OutRanks(sd, top[i][1], top[i + 1][1])
           /\ (~panicked /\ top # <<>>) => Some(top[1][1]) = Caches(self, sd)[1]
           /\ (~panicked /\ Len(top) >= 2) => Some(top[2][1]) = Caches(self, sd)[2]
           /\ (n = 0 \/ book = <<>>) => top = <<>>

\* a full bid side and a shorter ask side: get_top_levels(side, 2) cuts the
\* bids and get_top_levels(side, MAX_LEVELS) returns all the asks
C17_Witness ==
    /\ Len(bids) = MAX_LEVELS
    /\ Len(asks) = MAX_LEVELS - 1
    /\ Len(get_top_levels(self, "Bid", 2)) = 2
    /\ get_top_levels(self, "Ask", MAX_LEVELS) = asks
    /\ last.branch = "overwritten"

\* C18: get_quantity_at(price, side) is Some(q) iff the side stores the level
\* (price, q) and absent otherwise; it is never Some(0) and never the quantity
\* of another price or of the other side.
C18_QuantityAtIsStoredLevel ==
    \A sd \in Sides : \A p \in AllPrices :
        LET book == Book(self, sd)
            answer == get_quantity_at(self, p, sd)
        IN /\ answer # Some(0)
           /\ IF p \in PricesOf(book)
              THEN answer = Some(QuantityOf(book, p))
              ELSE answer = None
           /\ \A q \in 0..QuantityModulus - 1 :
                 answer = Some(q) <=> \E i \in 1..Len(book) : book[i] = <<p, q>>

\* one price rests on both sides with different quantities, next to a price
\* that only the other side holds
C18_Witness ==
    /\ \E p \in Prices :
          /\ get_quantity_at(self, p, "Bid") = Some(1)
          /\ get_quantity_at(self, p, "Ask") = Some(QuantityModulus \div 2)
    /\ \E p \in Prices :
          /\ get_quantity_at(self, p, "Bid") = None
          /\ get_quantity_at(self, p, "Ask") # None
    /\ Len(bids) >= 2

\* C19 as stated: no sequence of updates and queries drives the engine into a
\* panic.
C19_NeverPanics ==
    /\ ~panicked
    /\ ~get_spread_panics(self)

\* C20 as stated: the subtraction best_ask - best_bid of get_spread() never
\* leaves the i64 range in a reachable book.
C20_SpreadNeverOverflows ==
    ~panicked => ~spread_overflows(self)

\* C21 as stated: for every Set with a non-zero quantity, from any state, the
\* addition to the running total of the side neither panics nor wraps: the
\* total afterwards is the exact sum of the quantities stored on the side.
C21_TotalNeverOverflows ==
    ~panicked =>
        \A p \in Prices, q \in Quantities \ {0}, sd \in Sides :
            LET next == After(Set(p, q, sd))
            IN /\ ~next.panic
               /\ get_total_quantity(next, sd) = SumQuantities(Book(next, sd))

(***************************************************************************)
(* Stepwise execution of one call: each iteration of a loop of the source  *)
(* is one step.  The variable last holds the frame of the call: its        *)
(* arguments, its position (branch) and the locals of the loop it is in.   *)
(* The engine is written when the call returns.                            *)
(***************************************************************************)
\* OrderBookImpl::new() in a build with or without overflow checks
new(checks) ==
    [bids |-> <<>>, asks |-> <<>>,
     best_bid |-> None, second_best_bid |-> None,
     best_ask |-> None, second_best_ask |-> None,
     total_bid_qty |-> 0, total_ask_qty |-> 0,
     overflow_checks |-> checks, panic |-> FALSE]

\* the engine after one Set of quantity 1 for each of the prices on side
RECURSIVE populate(_, _, _)
populate(s, prices, side) ==
    IF prices = {} THEN s
    ELSE LET p == CHOOSE x \in prices : TRUE
         IN CHOOSE populated \in {populate(next, prices \ {p}, side) :
                                     next \in {apply_update(s, Set(p, 1, side))}} : TRUE

engine == <<bids, asks, best_bid, second_best_bid, best_ask, second_best_ask,
            total_bid_qty, total_ask_qty, overflow_checks, panicked>>

\* the frame before any call
Idle ==
    [type |-> "idle", side |-> "Bid", branch |-> "idle",
     price |-> 0, quantity |-> 0, n |-> 0,
     book |-> <<>>, l |-> 0, r |-> 0, found |-> FALSE, idx |-> 0, iterations |-> 0,
     i |-> 0, top1 |-> None, top2 |-> None, candidate |-> None,
     scanned |-> "", visits |-> <<>>, out |-> <<>>]

\* the calls that start with a binary search
Searching == {"Set", "Remove", "get_quantity_at"}

\* the calls without a loop
Straight == {"get_spread", "get_best_bid", "get_best_ask", "get_total_quantity"}

\* the engine object is s
engine_is(s) ==
    /\ bids = s.bids
    /\ asks = s.asks
    /\ best_bid = s.best_bid
    /\ second_best_bid = s.second_best_bid
    /\ best_ask = s.best_ask
    /\ second_best_ask = s.second_best_ask
    /\ total_bid_qty = s.total_bid_qty
    /\ total_ask_qty = s.total_ask_qty
    /\ overflow_checks = s.overflow_checks
    /\ panicked = s.panic

StepInit ==
    \E bid_prices \in SUBSET Prices, ask_prices \in SUBSET Prices, checks \in BOOLEAN :
        /\ last = Idle
        /\ \E bid_side \in {populate(new(checks), bid_prices, "Bid")} :
              engine_is(populate(bid_side, ask_prices, "Ask"))

\* entry of a call: the arguments are bound and the first loop is set up
Call(type, side, price, quantity, n) ==
    /\ last.branch = "idle"
    /\ ~panicked
    /\ last' = [Idle EXCEPT !.type = type, !.side = side, !.price = price,
                            !.quantity = quantity, !.n = n,
                            !.book = Book(self, side), !.r = Len(Book(self, side)),
                            !.branch = IF type \in Searching THEN "locate"
                                       ELSE IF type = "get_top_levels" THEN "take"
                                       ELSE "body"]
    /\ UNCHANGED engine

CallUpdate ==
    \E update \in Updates :
        Call(update.type, update.side, update.price, update.quantity, 0)

CallQuantityAt ==
    \E price \in Prices, side \in Sides : Call("get_quantity_at", side, price, 0, 0)

CallTopLevels ==
    \E side \in Sides, n \in 0..MAX_LEVELS + 1 : Call("get_top_levels", side, 0, 0, n)

CallStraight ==
    \E type \in Straight, side \in Sides :
        /\ type # "get_total_quantity" => side = "Bid"
        /\ Call(type, side, 0, 0, 0)

\* variant of the loop test and body that moves l to m, not past it
locate_iteration_no_advance(f) ==
    IF f.l < f.r
    THEN LET m == (f.l + f.r) \div 2
             mid == f.book[m + 1][1]
             g == [f EXCEPT !.iterations = f.iterations + 1]
         IN IF mid = f.price THEN [g EXCEPT !.found = TRUE, !.idx = m, !.branch = "located"]
            ELSE IF f.side = "Bid"
                 THEN IF mid < f.price THEN [g EXCEPT !.r = m] ELSE [g EXCEPT !.l = m]
                 ELSE IF mid < f.price THEN [g EXCEPT !.l = m] ELSE [g EXCEPT !.r = m]
    ELSE [f EXCEPT !.found = FALSE, !.idx = f.l, !.branch = "located"]

\* the loop test and one pass through the body of the while loop of
\* locate_bid (side Bid) or locate_ask (side Ask)
locate_iteration(f) ==
    IF f.l < f.r
    THEN LET m == (f.l + f.r) \div 2
             mid == f.book[m + 1][1]
             g == [f EXCEPT !.iterations = f.iterations + 1]
         IN IF mid = f.price THEN [g EXCEPT !.found = TRUE, !.idx = m, !.branch = "located"]
            ELSE IF f.side = "Bid"
                 THEN IF mid < f.price THEN [g EXCEPT !.r = m] ELSE [g EXCEPT !.l = m + 1]
                 ELSE IF mid < f.price THEN [g EXCEPT !.l = m + 1] ELSE [g EXCEPT !.r = m]
    ELSE [f EXCEPT !.found = FALSE, !.idx = f.l, !.branch = "located"]

\* what follows the search: the removal arms go on to a rescan of the side
\* after remove_at, every other arm is straight-line code
after_locate(s, f) ==
    IF f.type \in {"Set", "Remove"} /\ f.found /\ (f.type = "Remove" \/ f.quantity = 0)
    THEN LET rm == remove_at(f.book, f.idx)
             best == Caches(s, f.side)[1]
             current_second == Caches(s, f.side)[2]
             removed_best == IF best = None THEN FALSE ELSE best[1] = f.price
             scan == [f EXCEPT !.book = rm.book, !.i = 0]
         IN IF rm.removed[2] > get_total_quantity(s, f.side) /\ s.overflow_checks
            THEN [f EXCEPT !.branch = "body"]
            ELSE IF removed_best THEN [scan EXCEPT !.branch = "recompute_top2"]
            ELSE IF (IF current_second = None THEN FALSE ELSE current_second[1] = f.price)
                    /\ best # None
                 THEN [scan EXCEPT !.branch = "maybe_update_second_best"]
            ELSE [f EXCEPT !.branch = "body"]
    ELSE [f EXCEPT !.branch = "body"]

\* one iteration of the for loop of recompute_top2: the body applied to level i
recompute_top2_iteration(f) ==
    IF f.i < Len(f.book)
    THEN LET t == recompute_top2_loop(<<f.book[f.i + 1]>>, 1, f.side = "Bid", f.top1, f.top2)
         IN [f EXCEPT !.top1 = t[1], !.top2 = t[2],
                      !.i = f.i + 1, !.visits = Append(f.visits, f.i)]
    ELSE [f EXCEPT !.scanned = "recompute_top2", !.branch = "body"]

\* one iteration of the for loop of maybe_update_second_best
second_best_iteration(s, f) ==
    IF f.i < Len(f.book)
    THEN [f EXCEPT !.candidate = second_best_scan(<<f.book[f.i + 1]>>, 1, Caches(s, f.side)[1][1],
                                                  f.side = "Bid", f.candidate),
                   !.i = f.i + 1, !.visits = Append(f.visits, f.i)]
    ELSE [f EXCEPT !.scanned = "maybe_update_second_best", !.branch = "body"]

\* one step of iter().take(n).map(..).collect() of get_top_levels
take_iteration(f) ==
    IF f.i < f.n /\ f.i < Len(f.book)
    THEN [f EXCEPT !.out = Append(f.out, f.book[f.i + 1]),
                   !.i = f.i + 1, !.visits = Append(f.visits, f.i)]
    ELSE [f EXCEPT !.branch = "body"]

\* the engine a call leaves behind
returned(s, f) ==
    IF f.type = "Set" THEN apply_update(s, Set(f.price, f.quantity, f.side))
    ELSE IF f.type = "Remove" THEN apply_update(s, Remove(f.price, f.side))
    ELSE IF f.type = "get_spread" /\ get_spread_panics(s) THEN Panic(s)
    ELSE s

LocateStep ==
    /\ last.branch = "locate"
    /\ last' = locate_iteration(last)
    /\ UNCHANGED engine

Located ==
    /\ last.branch = "located"
    /\ last' = after_locate(self, last)
    /\ UNCHANGED engine

RecomputeStep ==
    /\ last.branch = "recompute_top2"
    /\ last' = recompute_top2_iteration(last)
    /\ UNCHANGED engine

SecondBestStep ==
    /\ last.branch = "maybe_update_second_best"
    /\ last' = second_best_iteration(self, last)
    /\ UNCHANGED engine

TakeStep ==
    /\ last.branch = "take"
    /\ last' = take_iteration(last)
    /\ UNCHANGED engine

Return ==
    /\ last.branch = "body"
    /\ Commit(returned(self, last))
    /\ last' = [last EXCEPT !.branch = "returned"]

\* the steps of a call under way
Step == LocateStep \/ Located \/ RecomputeStep \/ SecondBestStep \/ TakeStep \/ Return

StepNext == CallUpdate \/ CallQuantityAt \/ CallTopLevels \/ CallStraight \/ Step

\* a call, once entered, keeps executing: there is no cancellation
StepSpec == StepInit /\ [][StepNext]_vars /\ WF_vars(Step)

\* the stepped loops compute what the calls of the engine compute
StepsAgree ==
    /\ (last.branch = "located") =>
          <<last.found, last.idx>> =
              (IF last.side = "Bid"
               THEN <<locate_bid(bids, last.price).found, locate_bid(bids, last.price).idx>>
               ELSE <<locate_ask(asks, last.price).found, locate_ask(asks, last.price).idx>>)
    /\ (last.branch = "returned" /\ last.scanned = "recompute_top2") =>
          Caches(self, last.side) = <<last.top1, last.top2>>
    /\ (last.branch = "returned" /\ last.scanned = "maybe_update_second_best") =>
          Caches(self, last.side)[2] = last.candidate
    /\ (last.branch = "body" /\ last.type = "get_top_levels") =>
          last.out = get_top_levels(self, last.side, last.n)

\* C22: every call of apply_update and of each query, entered in a reachable
\* engine state, returns; each iteration of the binary search of locate_bid
\* and locate_ask strictly shrinks the interval [l, r), which stays inside the
\* slice; the rescans and the listing visit each stored level at most once.
C22_CallsTerminate ==
    /\ (last.branch # "idle") ~> (last.branch = "returned")
    /\ [][(last.branch = "locate" /\ last'.branch = "locate")
          => /\ last'.r - last'.l < last.r - last.l
             /\ 0 <= last'.l /\ last'.l <= last'.r /\ last'.r <= Len(last.book)]_vars
    /\ [](/\ \A a, b \in 1..Len(last.visits) : last.visits[a] = last.visits[b] => a = b
          /\ \A a \in 1..Len(last.visits) : last.visits[a] \in 0..Len(last.book) - 1
          /\ last.r - last.l >= 0)

\* a removal of the best level of a full side has returned after a binary
\* search of two iterations and a rescan that visited every remaining level
C22_Witness ==
    /\ last.branch = "returned"
    /\ last.type \in {"Set", "Remove"}
    /\ last.iterations >= 2
    /\ last.scanned = "recompute_top2"
    /\ Len(last.visits) = MAX_LEVELS - 1
    /\ ~panicked

(***************************************************************************)
(* Subscription commands of the WebSocket price server                     *)
(* (src/rust-td 2/src/main.rs).  A string is the sequence of its           *)
(* characters, a character a string of length one.                         *)
(***************************************************************************)
\* enum Subscription
All == [variant |-> "All"]
Symbol(sym) == [variant |-> "Symbol", sym |-> sym]

\* char::is_whitespace on the characters of the commands
is_whitespace(c) == c \in {" ", "\t"}

\* the letters of the commands with their upper-case forms
Uppercase ==
    [c \in {"a", "b", "l", "p", "s", "u", "t"} |->
        CASE c = "a" -> "A" [] c = "b" -> "B" [] c = "l" -> "L" [] c = "p" -> "P"
          [] c = "s" -> "S" [] c = "u" -> "U" [] c = "t" -> "T"]

\* char::to_ascii_uppercase / char::to_uppercase
to_uppercase_char(c) == IF c \in DOMAIN Uppercase THEN Uppercase[c] ELSE c

\* variant that leaves every character as it is
to_uppercase_identity(str) == str

\* str::to_uppercase
to_uppercase(str) == [i \in 1..Len(str) |-> to_uppercase_char(str[i])]

\* str::eq_ignore_ascii_case
eq_ignore_ascii_case(a, b) ==
    /\ Len(a) = Len(b)
    /\ \A i \in 1..Len(a) : to_uppercase_char(a[i]) = to_uppercase_char(b[i])

RECURSIVE trim_start(_)
trim_start(str) ==
    IF str # <<>> /\ is_whitespace(Head(str)) THEN trim_start(Tail(str)) ELSE str

RECURSIVE trim_end(_)
trim_end(str) ==
    IF str # <<>> /\ is_whitespace(str[Len(str)])
    THEN trim_end(SubSeq(str, 1, Len(str) - 1))
    ELSE str

\* str::trim
trim(str) == trim_end(trim_start(str))

\* str::strip_prefix
strip_prefix(str, prefix) ==
    IF Len(str) >= Len(prefix) /\ SubSeq(str, 1, Len(prefix)) = prefix
    THEN Some(SubSeq(str, Len(prefix) + 1, Len(str)))
    ELSE None

\* the literals of parse_subscription
SUB_ALL == <<"S", "U", "B", " ", "A", "L", "L">>
SUB_ == <<"S", "U", "B", " ">>

parse_subscription(cmd) ==
    LET trimmed == trim(cmd)
        rest == strip_prefix(trimmed, SUB_)
    IN IF eq_ignore_ascii_case(trimmed, SUB_ALL) THEN Some(All)
       ELSE IF rest # None /\ to_uppercase(trim(rest[1])) # <<>>
            THEN Some(Symbol(to_uppercase(trim(rest[1]))))
            ELSE None

\* the commands a client sends: white space, a first word, a separator, a
\* second word, white space
Commands ==
    {lead \o word \o sep \o arg \o trail :
        lead \in {<<>>, <<" ">>, <<"\t", " ">>},
        word \in {<<>>, <<"S", "U", "B">>, <<"s", "u", "b">>, <<"S", "u", "b">>,
                  <<"S", "U">>, <<"S", "U", "B", "S">>, <<"/", "s", "t", "a", "t", "s">>},
        sep \in {<<>>, <<" ">>, <<" ", " ">>, <<"\t">>},
        arg \in {<<>>, <<"A", "L", "L">>, <<"a", "l", "l">>, <<"a", "L", "l">>,
                 <<"A", "L", "L", "L">>, <<"a", "a", "p", "l">>, <<"A", "A", "P", "L">>,
                 <<"a", " ", "b">>},
        trail \in {<<>>, <<" ">>, <<" ", "\t">>, <<" ", " ", " ">>}}

\* a command is given, then parsed; the order book engine is not involved
ParseInit ==
    /\ engine_is(new(FALSE))
    /\ \E cmd \in Commands :
          last = [type |-> "parse_subscription", side |-> "Bid", branch |-> "called",
                  cmd |-> cmd, result |-> None]

Parse ==
    /\ last.branch = "called"
    /\ last' = [last EXCEPT !.branch = "returned", !.result = parse_subscription(last.cmd)]
    /\ UNCHANGED engine

ParseNext == Parse

ParseSpec == ParseInit /\ [][ParseNext]_vars

\* t is str without its leading and trailing white space
Trimmed(str, t) ==
    \E i \in 0..Len(str), j \in 0..Len(str) :
        /\ i <= j
        /\ t = SubSeq(str, i + 1, j)
        /\ \A k \in 1..i : is_whitespace(str[k])
        /\ \A k \in j + 1..Len(str) : is_whitespace(str[k])
        /\ t # <<>> => (~is_whitespace(t[1]) /\ ~is_whitespace(t[Len(t)]))

\* the substrings of str
Substrings(str) == {SubSeq(str, i + 1, j) : i \in 0..Len(str), j \in 0..Len(str)}

\* t is "SUB ALL" up to the case of its letters
IsSubAll(t) ==
    /\ Len(t) = Len(SUB_ALL)
    /\ \A k \in 1..Len(t) : t[k] = SUB_ALL[k] \/ (t[k] \in DOMAIN Uppercase /\ Uppercase[t[k]] = SUB_ALL[k])

\* C23: parse_subscription returns All for "SUB ALL" compared without regard
\* to case after trimming, Symbol(S) for "SUB <sym>" where S is the trimmed,
\* upper-cased, non-empty symbol, and None for every other command, among
\* them "SUB" without a symbol and "/stats".
C23_ParseSubscription ==
    last.branch = "returned" =>
        \A t \in Substrings(last.cmd) :
            Trimmed(last.cmd, t) =>
                /\ IsSubAll(t) => last.result = Some(All)
                /\ (~IsSubAll(t) /\ Len(t) > Len(SUB_) /\ SubSeq(t, 1, Len(SUB_)) = SUB_) =>
                      \E sym \in Substrings(t) :
                          /\ Trimmed(SubSeq(t, Len(SUB_) + 1, Len(t)), sym)
                          /\ sym # <<>>
                          /\ last.result # None
                          /\ last.result[1].variant = "Symbol"
                          /\ Len(last.result[1].sym) = Len(sym)
                          /\ \A k \in 1..Len(sym) :
                                /\ last.result[1].sym[k] \notin DOMAIN Uppercase
                                /\ \/ last.result[1].sym[k] = sym[k]
                                   \/ (sym[k] \in DOMAIN Uppercase
                                       /\ last.result[1].sym[k] = Uppercase[sym[k]])
                /\ (~IsSubAll(t) /\ ~(Len(t) > Len(SUB_) /\ SubSeq(t, 1, Len(SUB_)) = SUB_)) =>
                      last.result = None
                /\ t = <<"S", "U", "B">> => last.result = None
                /\ t = <<"/", "s", "t", "a", "t", "s">> => last.result = None

\* the command "SUB  aapl   " has been parsed to Symbol("AAPL")
C23_Witness ==
    /\ last.branch = "returned"
    /\ last.cmd = <<"S", "U", "B", " ", " ", "a", "a", "p", "l", " ", " ", " ">>
    /\ last.result = Some(Symbol(<<"A", "A", "P", "L">>))

\* book is strictly sorted in the ranking order of side (hence duplicate-free)
StrictlySorted(side, book) ==
    \A k \in 1..Len(book) - 1 : OutRanks(side, book[k][1], book[k + 1][1])

\* (found, idx) is the answer C24 describes for price in book
LocatePost(side, book, price, found, idx) ==
    /\ 0 <= idx /\ idx <= Len(book)
    /\ found <=> price \in PricesOf(book)
    /\ found => (idx < Len(book) /\ book[idx + 1][1] = price)
    /\ ~found =>
          \A j \in 0..Len(book) :
              StrictlySorted(side, insert_at(book, j, <<price, 1>>)) <=> j = idx

\* C24: on every strictly sorted slice and for every price, locate_bid
\* (descending) and locate_ask (ascending) return (true, i) with
\* slice[i].price = price when the price is present, and otherwise (false, i)
\* with i the one index in 0 .. len at which inserting the price keeps the
\* slice strictly sorted.
C24_LocateIsExact ==
    /\ (last.branch = "located" /\ StrictlySorted(last.side, last.book))
          => LocatePost(last.side, last.book, last.price, last.found, last.idx)
    /\ \A p \in AllPrices :
          /\ StrictlySorted("Bid", bids)
                => LocatePost("Bid", bids, p, locate_bid(bids, p).found, locate_bid(bids, p).idx)
          /\ StrictlySorted("Ask", asks)
                => LocatePost("Ask", asks, p, locate_ask(asks, p).found, locate_ask(asks, p).idx)

\* the search of an absent price in a full side has ended, after two
\* iterations, at an insertion index strictly inside the slice
C24_Witness ==
    /\ last.branch = "located"
    /\ ~last.found
    /\ Len(last.book) = MAX_LEVELS
    /\ StrictlySorted(last.side, last.book)
    /\ 0 < last.idx /\ last.idx < Len(last.book)
    /\ last.iterations >= 2

\* C25: a Set that inserts a new level leaves the caches of its side as
\* follows.  If the price out-ranks the cached best (or the side has none),
\* the best is the new price and the second-best the previous best; else if
\* it out-ranks the cached second-best (or there is none), the best is
\* unchanged and the second-best is the new price; else both are unchanged.
C25_InsertUpdatesCaches ==
    ~panicked =>
        \A sd \in Sides : \A p \in Prices \ PricesOf(Book(self, sd)) : \A q \in Quantities \ {0} :
            LET next == After(Set(p, q, sd))
                best == Caches(self, sd)[1]
                second == Caches(self, sd)[2]
            IN (~next.panic /\ p \in PricesOf(Book(next, sd)))
               => IF best = None \/ OutRanks(sd, p, best[1])
                  THEN Caches(next, sd) = <<Some(p), best>>
                  ELSE IF second = None \/ OutRanks(sd, p, second[1])
                  THEN Caches(next, sd) = <<best, Some(p)>>
                  ELSE Caches(next, sd) = <<best, second>>

\* a Set has just inserted a level into a side that now holds at least three
\* levels, led by the cached best and second-best
C25_Witness ==
    /\ last.type = "Set" /\ last.branch = "inserted"
    /\ ~panicked
    /\ LET book == Book(self, last.side)
       IN /\ Len(book) >= 3
          /\ Caches(self, last.side) = <<Some(book[1][1]), Some(book[2][1])>>

\* C26: when the level at the cached best price is removed, by Remove or by
\* Set with quantity 0, the new cached best is the second-best cached just
\* before (absent if there was none) and the new second-best is the price of
\* the level ranked third before the removal (absent if there was none).
C26_RemoveBestPromotes ==
    ~panicked =>
        \A sd \in Sides :
            LET old == Book(self, sd)
                best == Caches(self, sd)[1]
                second == Caches(self, sd)[2]
                third == IF Len(old) >= 3 THEN Some(old[3][1]) ELSE None
            IN (best # None /\ best[1] \in PricesOf(old))
               => \A u \in {Remove(best[1], sd), Set(best[1], 0, sd)} :
                     ~After(u).panic => Caches(After(u), sd) = <<second, third>>

\* the best level of a full side has just been removed: the former
\* second-best and third level lead the side
C26_Witness ==
    /\ last.branch = "removed best"
    /\ ~panicked
    /\ LET book == Book(self, last.side)
       IN /\ Len(book) = MAX_LEVELS - 1
          /\ Caches(self, last.side) = <<Some(book[1][1]), Some(book[2][1])>>

\* the best-ranked price of book other than the price best, if there is one
BestOtherThan(side, book, best) ==
    LET others == PricesOf(book) \ {best}
    IN IF others = {} THEN None
       ELSE Some(CHOOSE r \in others : \A o \in others \ {r} : OutRanks(side, r, o))

\* C27: removing a level whose price is not the cached best leaves the cached
\* best of the side unchanged; the cached second-best changes only if the
\* removed price was the cached second-best, and then becomes the best-ranked
\* remaining price other than the best (absent if none remains).
C27_RemoveOtherKeepsBest ==
    ~panicked =>
        \A sd \in Sides : \A p \in PricesOf(Book(self, sd)) :
            LET best == Caches(self, sd)[1]
                second == Caches(self, sd)[2]
            IN best # Some(p)
               => \A u \in {Remove(p, sd), Set(p, 0, sd)} :
                     LET next == After(u)
                     IN ~next.panic
                        => /\ Caches(next, sd)[1] = best
                           /\ Caches(next, sd)[2] =
                                 IF second = Some(p)
                                 THEN BestOtherThan(sd, Book(next, sd), best[1])
                                 ELSE second

\* the second-best level of a full side has just been removed: the best is
\* still first and the former third level is the second-best
C27_Witness ==
    /\ last.branch = "removed second-best"
    /\ ~panicked
    /\ LET book == Book(self, last.side)
       IN /\ Len(book) = MAX_LEVELS - 1
          /\ Caches(self, last.side) = <<Some(book[1][1]), Some(book[2][1])>>

\* C28: an update whose side is Bid leaves the ask levels, best ask,
\* second-best ask and total ask quantity unchanged, and an update whose side
\* is Ask leaves all bid state unchanged.  (That a crossed book is reachable
\* is what C28_Witness states.)
C28_SidesIndependent ==
    ~panicked =>
        \A u \in Updates :
            SideState(After(u), Other(u.side)) = SideState(self, Other(u.side))

\* a crossed book: after an update the best bid is at or above the best ask,
\* the spread the engine reports is not positive, and a further update of
\* either side would leave the other side as it is
C28_Witness ==
    /\ last.type \in {"Set", "Remove"}
    /\ ~panicked
    /\ best_bid # None /\ best_ask # None
    /\ best_bid[1] >= best_ask[1]
    /\ ~spread_overflows(self)
    /\ get_spread(self) # None /\ get_spread(self)[1] <= 0
    /\ Len(bids) >= 2 /\ Len(asks) >= 2

(***************************************************************************)
(* The abstract book: per side a map from price to non-zero quantity       *)
(***************************************************************************)
\* the map a side stores
AbsMap(book) == [p \in PricesOf(book) |-> QuantityOf(book, p)]

\* Set with q > 0 writes the key, Set with q = 0 and Remove delete it
MapApply(m, u) ==
    IF u.type = "Set" /\ u.quantity > 0
    THEN [p \in DOMAIN m \cup {u.price} |-> IF p = u.price THEN u.quantity ELSE m[p]]
    ELSE [p \in DOMAIN m \ {u.price} |-> m[p]]

\* the entries of map m in the ranking order of side
RECURSIVE Ranked(_, _)
Ranked(side, m) ==
    IF DOMAIN m = {} THEN <<>>
    ELSE LET b == CHOOSE p \in DOMAIN m : \A o \in DOMAIN m \ {p} : OutRanks(side, p, o)
         IN <<<<b, m[b]>>>> \o Ranked(side, [p \in DOMAIN m \ {b} |-> m[p]])

\* the side state that stores map m: levels, caches and total
SideOf(side, m) ==
    LET book == Ranked(side, m)
    IN <<book,
         <<IF Len(book) >= 1 THEN Some(book[1][1]) ELSE None,
           IF Len(book) >= 2 THEN Some(book[2][1]) ELSE None>>,
         SumQuantities(book) % QuantityModulus>>

\* update u does not try to insert a level into a side that is full
NoInsertWhenFull(s, u) ==
    \/ Len(Book(s, u.side)) < MAX_LEVELS
    \/ u.price \in PricesOf(Book(s, u.side))
    \/ u.type = "Remove"
    \/ u.quantity = 0

\* the updates of side sd at price p, one per effect on the map
UpdatesAt(p, sd) == {Set(p, q, sd) : q \in Quantities \ {0}} \cup {Remove(p, sd)}

\* C29: while no update meets a full side, the engine refines the map from
\* price to non-zero quantity of each side: the state of a side (levels in
\* ranking order, caches, total modulo the width of u64) is a function of its
\* map alone, every update that returns changes the map as MapApply, and two
\* updates of distinct prices that return and keep the side below MAX_LEVELS
\* leave the same engine in either order.
C29_RefinesPriceMap ==
    ~panicked =>
        /\ \A sd \in Sides : SideState(self, sd) = SideOf(sd, AbsMap(Book(self, sd)))
        /\ \A u \in Updates :
              LET next == After(u)
              IN (NoInsertWhenFull(self, u) /\ ~next.panic)
                 => /\ Book(next, u.side) = Ranked(u.side, MapApply(AbsMap(Book(self, u.side)), u))
                    /\ Book(next, Other(u.side)) = Book(self, Other(u.side))
        /\ \A sd \in Sides : \A p1, p2 \in Prices :
              (/\ p1 < p2
               /\ Cardinality(PricesOf(Book(self, sd)) \cup {p1, p2}) < MAX_LEVELS)
              => \A u1 \in UpdatesAt(p1, sd), u2 \in UpdatesAt(p2, sd) :
                    LET first == apply_update(After(u1), u2)
                        second == apply_update(After(u2), u1)
                    IN (~first.panic /\ ~second.panic) => first = second

\* a level has just been inserted next to another one of a different
\* quantity, the side is not full, and the levels are stored in ranking order
C29_Witness ==
    /\ last.type = "Set" /\ last.branch = "inserted"
    /\ ~panicked
    /\ LET book == Book(self, last.side)
       IN /\ Len(book) = MAX_LEVELS - 1
          /\ book = Ranked(last.side, AbsMap(book))
          /\ book[1][2] # book[2][2]

(***************************************************************************)
(* OrderBookBenchmark::run (src/rust-td 4/src/benchmarks.rs) on one book.  *)
(* The variable last holds the frame of run: its argument, the phase it is *)
(* in (branch), the loop indices and the timings recorded so far.  Prices  *)
(* are counted in ticks of 10 from base_price = 100000, the quantities 100 *)
(* and 120 are scaled to 1 and 2, the batch sizes and the number of        *)
(* warm-up levels are scaled down with the capacity of the book, and usize *)
(* is scaled to 0 .. USIZE_MAX: its sums and differences panic in a build  *)
(* with overflow checks and wrap in a build without.                       *)
(***************************************************************************)
\* usize::MAX, scaled
USIZE_MAX == 31

\* largest argument `iterations` of run
MaxIterations == USIZE_MAX

\* the loop of a timed phase is followed for at most this many batches
MaxBatches == 6

\* const BATCH_SIZE (10_000), scaled
BATCH_SIZE == 2

\* const UPDATE_BATCH_SIZE (100_000), scaled
UPDATE_BATCH_SIZE == 8

\* the query phases run iterations / 10 operations
QUERY_DIVISOR == 10

\* warm-up: for i in 0..100, scaled so that one more level fits on a side
WARMUP_LEVELS == MAX_LEVELS - 1

\* base_price = 100000, the price of the first warm-up bid
BASE_PRICE == 0

\* 100100 - 100000, the distance of the first warm-up ask, in ticks
ASK_OFFSET == 2

\* the quantities 100 and 120
Q100 == 1
Q120 == 2

\* the random reads cycle over j % 500 prices
READ_SPAN == 4

\* start.elapsed().as_nanos() of one batch
ElapsedNs == {1, 2}

\* the phases of run, in the order of the source
Phases == <<"warmup", "updates", "spread", "best_bid", "best_ask", "random_reads", "report">>

\* the timed phases
Timed == {"updates", "spread", "best_bid", "best_ask", "random_reads"}

\* the number of operations of a timed phase: iterations, or iterations / 10
OperationCount(phase, iterations) ==
    IF phase = "updates" THEN iterations ELSE iterations \div QUERY_DIVISOR

\* the batch size of a timed phase
BatchSizeOf(phase) == IF phase = "updates" THEN UPDATE_BATCH_SIZE ELSE BATCH_SIZE

\* a + b and a - b leave the range of usize
usize_overflows(n) == n < 0 \/ n > USIZE_MAX

\* the value kept after a wrap
usize_wrap(n) == (n + USIZE_MAX + 1) % (USIZE_MAX + 1)

\* the operand (count + batch size - 1) of the capacity of the timings
capacity_operand(phase, iterations) ==
    OperationCount(phase, iterations) + BatchSizeOf(phase) - 1

\* variant: the best-bid phase runs before the spread phase
NextPhase_bid_first(phase) ==
    IF phase = "updates" THEN "best_bid"
    ELSE IF phase = "best_bid" THEN "spread"
    ELSE IF phase = "spread" THEN "best_ask"
    ELSE Phases[(CHOOSE k \in 1..Len(Phases) - 1 : Phases[k] = phase) + 1]

\* the phase after phase
NextPhase(phase) ==
    Phases[(CHOOSE k \in 1..Len(Phases) - 1 : Phases[k] = phase) + 1]

\* the frame of run on entry: ob = T::new() is made, the warm-up is next
Entry(iterations) ==
    [type |-> "run", side |-> "Bid", branch |-> "warmup",
     iterations |-> iterations,
     loop |-> "enter", i |-> 0, j |-> 0, end |-> 0,
     timings |-> [phase \in Timed |-> <<>>],
     done |-> [phase \in Timed \cup {"warmup"} |-> 0],
     out |-> None, result |-> None]

BenchInit ==
    \E iterations \in 0..MaxIterations, checks \in BOOLEAN :
        /\ engine_is(new(checks))
        /\ last = Entry(iterations)

\* one iteration of the for loop of warmup: a bid and an ask are set
WarmupStep ==
    /\ last.branch = "warmup"
    /\ ~panicked
    /\ last.i < WARMUP_LEVELS
    /\ LET bid == apply_update(self, Set(BASE_PRICE + last.i, Q100, "Bid"))
           ask == IF bid.panic THEN bid
                  ELSE apply_update(bid, Set(BASE_PRICE + ASK_OFFSET + last.i, Q100, "Ask"))
       IN Commit(ask)
    /\ last' = [last EXCEPT !.i = last.i + 1, !.done["warmup"] = @ + 1]

\* warmup returns; benchmark_updates begins with i = 0
WarmupEnd ==
    /\ last.branch = "warmup"
    /\ ~panicked
    /\ last.i >= WARMUP_LEVELS
    /\ last' = [last EXCEPT !.branch = "updates", !.loop = "enter", !.i = 0]
    /\ UNCHANGED engine

\* the book and the build profile, all of the engine but the panic flag
ob == <<bids, asks, best_bid, second_best_bid, best_ask, second_best_ask,
        total_bid_qty, total_ask_qty, overflow_checks>>

\* a timed phase begins: Vec::with_capacity((count + batch - 1) / batch) and
\* i = 0; the sum panics on overflow in a build with overflow checks
PhaseStart ==
    /\ last.branch \in Timed
    /\ ~panicked
    /\ last.loop = "enter"
    /\ IF usize_overflows(capacity_operand(last.branch, last.iterations)) /\ overflow_checks
       THEN panicked' = TRUE /\ UNCHANGED last
       ELSE panicked' = FALSE /\ last' = [last EXCEPT !.loop = "while", !.i = 0]
    /\ UNCHANGED ob

\* while i < iterations: a batch begins, end = (i + batch).min(count) and
\* count = end - i are computed in usize, the clock is read
BatchStart ==
    /\ last.branch \in Timed
    /\ ~panicked
    /\ last.loop = "while"
    /\ last.i < OperationCount(last.branch, last.iterations)
    /\ Len(last.timings[last.branch]) < MaxBatches
    /\ LET count == OperationCount(last.branch, last.iterations)
           limit == last.i + BatchSizeOf(last.branch)
           end == IF usize_wrap(limit) < count THEN usize_wrap(limit) ELSE count
       IN IF (usize_overflows(limit) \/ usize_overflows(end - last.i)) /\ overflow_checks
          THEN panicked' = TRUE /\ UNCHANGED last
          ELSE /\ panicked' = FALSE
               /\ last' = [last EXCEPT !.loop = "for", !.j = last.i, !.end = end]
    /\ UNCHANGED ob

\* the operation index j of a timed phase applies
timed_operation(s, phase, j) ==
    IF phase = "updates"
    THEN IF j % 2 = 0
         THEN apply_update(s, Set(BASE_PRICE, Q100, "Bid"))
         ELSE apply_update(s, Set(BASE_PRICE + 1, Q120, "Ask"))
    ELSE IF phase = "spread" /\ get_spread_panics(s) THEN Panic(s)
    ELSE s

\* what the operation index j of a timed phase returns (run drops it)
timed_result(s, phase, j) ==
    IF phase = "spread" THEN get_spread(s)
    ELSE IF phase = "best_bid" THEN get_best_bid(s)
    ELSE IF phase = "best_ask" THEN get_best_ask(s)
    ELSE IF phase = "random_reads"
    THEN get_quantity_at(s, BASE_PRICE + (j % READ_SPAN), IF j % 2 = 0 THEN "Bid" ELSE "Ask")
    ELSE None

\* one iteration of the for loop of a batch
OperationStep ==
    /\ last.branch \in Timed
    /\ ~panicked
    /\ last.loop = "for"
    /\ last.j < last.end
    /\ Commit(timed_operation(self, last.branch, last.j))
    /\ last' = [last EXCEPT !.j = last.j + 1, !.done[last.branch] = @ + 1,
                            !.out = timed_result(self, last.branch, last.j)]

\* the batch is over: elapsed / count is pushed, i = end
BatchEnd ==
    /\ last.branch \in Timed
    /\ ~panicked
    /\ last.loop = "for"
    /\ last.j >= last.end
    /\ \E elapsed \in ElapsedNs :
          last' = [last EXCEPT !.timings[last.branch] = Append(@, <<elapsed, usize_wrap(last.end - last.i)>>),
                               !.i = last.end, !.loop = "while"]
    /\ UNCHANGED engine

\* the while loop of a timed phase is over: the next phase begins
PhaseEnd ==
    /\ last.branch \in Timed
    /\ ~panicked
    /\ last.loop = "while"
    /\ last.i >= OperationCount(last.branch, last.iterations)
    /\ last' = [last EXCEPT !.branch = NextPhase(last.branch), !.loop = "enter", !.i = 0]
    /\ UNCHANGED engine

\* a timing elapsed / count is the pair <<elapsed, count>>; a < b as f64
timing_lt(a, b) == a[1] * b[2] < b[1] * a[2]

\* variant: the clone of the timings is left in the order of measurement
sort_by_skipped(timings) == timings

\* sort_by(partial_cmp) of the timings: a stable insertion sort
RECURSIVE sort_by(_)
sort_by(timings) ==
    IF timings = <<>> THEN <<>>
    ELSE LET rest == sort_by(SubSeq(timings, 1, Len(timings) - 1))
             x == timings[Len(timings)]
             before == SelectSeq(rest, LAMBDA y : ~timing_lt(x, y))
             after == SelectSeq(rest, LAMBDA y : timing_lt(x, y))
         IN before \o <<x>> \o after

\* the sum of the timings as a fraction
RECURSIVE sum(_)
sum(timings) ==
    IF timings = <<>> THEN <<0, 1>>
    ELSE LET rest == sum(Tail(timings))
             x == Head(timings)
         IN <<x[1] * rest[2] + rest[1] * x[2], x[2] * rest[2]>>

\* average: sum / len, which is 0.0 / 0.0 = NaN (<<0, 0>>) for no timing
average(timings) == <<sum(timings)[1], sum(timings)[2] * Len(timings)>>

\* the BenchmarkResult of run from the timings of the frame f
result_of(f) ==
    LET sorted_updates == sort_by(f.timings["updates"])
        len == Len(sorted_updates)
    IN [avg_update_ns |-> average(f.timings["updates"]),
        avg_spread_ns |-> average(f.timings["spread"]),
        avg_best_bid_ns |-> average(f.timings["best_bid"]),
        avg_best_ask_ns |-> average(f.timings["best_ask"]),
        avg_random_read_ns |-> average(f.timings["random_reads"]),
        p50_update_ns |-> sorted_updates[len \div 2 + 1],
        p95_update_ns |-> sorted_updates[(len * 95) \div 100 + 1],
        p99_update_ns |-> sorted_updates[(len * 99) \div 100 + 1],
        total_operations |-> f.iterations]

\* the end of run: the result is built; indexing no update timing panics
Report ==
    /\ last.branch = "report"
    /\ ~panicked
    /\ last' = IF last.timings["updates"] = <<>>
               THEN [last EXCEPT !.branch = "panicked"]
               ELSE [last EXCEPT !.branch = "returned", !.result = result_of(last)]
    /\ UNCHANGED engine

BenchNext ==
    \/ WarmupStep
    \/ WarmupEnd
    \/ PhaseStart
    \/ BatchStart
    \/ OperationStep
    \/ BatchEnd
    \/ PhaseEnd
    \/ Report

BenchSpec == BenchInit /\ [][BenchNext]_vars

\* the levels, caches and totals of the one book of run
book_of_run == <<bids, asks, best_bid, second_best_bid, best_ask, second_best_ask,
                 total_bid_qty, total_ask_qty>>

\* the query phases of run, in the order of the source
Queries == <<"spread", "best_bid", "best_ask", "random_reads">>

\* every operation of phase has been run (that a phase runs no operation
\* beyond its count is the subject of C31)
Complete(phase) ==
    last.done[phase] >= IF phase = "warmup" THEN WARMUP_LEVELS
                        ELSE OperationCount(phase, last.iterations)

\* C30: run works on one book and runs its phases in a fixed order: a timed
\* update runs only when every warm-up update is done, a timed query only
\* when every timed update is done, the queries of get_spread, get_best_bid,
\* get_best_ask and get_quantity_at each only when the phase before is
\* complete, and no step of a query phase changes the book.
C30_PhasesInOrder ==
    /\ [](/\ last.done["updates"] > 0 => Complete("warmup")
          /\ \A k \in 1..Len(Queries) :
                last.done[Queries[k]] > 0
                => /\ Complete("warmup")
                   /\ Complete("updates")
                   /\ \A h \in 1..k - 1 : Complete(Queries[h])
          /\ last.branch \in {"report", "returned", "panicked"}
             => \A phase \in Timed \cup {"warmup"} : Complete(phase))
    /\ [][/\ last.branch \in {"spread", "best_bid", "best_ask", "random_reads", "report"}
             => UNCHANGED book_of_run
          /\ last.done # last'.done
             => \E phase \in Timed \cup {"warmup"} :
                   /\ phase = last.branch
                   /\ last'.done = [last.done EXCEPT ![phase] = @ + 1]]_vars

\* run has returned after three update batches and two operations in each
\* query phase, on the book of the warm-up with the ask of the timed updates
C30_Witness ==
    /\ last.type = "run"
    /\ last.branch = "returned"
    /\ Len(last.timings["updates"]) = 3
    /\ \A k \in 1..Len(Queries) : last.done[Queries[k]] = 2
    /\ Len(bids) = WARMUP_LEVELS
    /\ Len(asks) = WARMUP_LEVELS + 1
    /\ best_ask = Some(BASE_PRICE + 1)
    /\ last.out = get_quantity_at(self, BASE_PRICE + 1, "Ask")
    /\ last.out # None

(***************************************************************************)
(* run is sequential code: it takes its next step as long as it has one.   *)
(***************************************************************************)
BenchFairSpec == BenchSpec /\ WF_vars(BenchNext)

\* run has left phase: it is in a later phase or at its end
Left(phase) ==
    \/ last.branch \in {"returned", "panicked"}
    \/ \E h, k \in 1..Len(Phases) : h < k /\ Phases[h] = phase /\ Phases[k] = last.branch

\* the number of operations the timings account for
RECURSIVE Counted(_)
Counted(timings) ==
    IF timings = <<>> THEN 0 ELSE Head(timings)[2] + Counted(Tail(timings))

\* ceil(count / batch)
CeilDiv(count, batch) == (count + batch - 1) \div batch

\* C31: for every value of iterations each timed phase ends (run gets from
\* every timed phase to the building of its result), having run
\* exactly its operation count (iterations, or iterations / 10) in
\* ceil(count / batch size) consecutive batches of 1 .. batch size
\* operations, with one timing elapsed / (operations of the batch) per batch.
C31_BatchesComplete ==
    /\ (last.branch \in Timed) ~> (last.branch = "report")
    /\ [](\A phase \in Timed :
            LET count == OperationCount(phase, last.iterations)
                timings == last.timings[phase]
            IN /\ Left(phase)
                  => /\ last.done[phase] = count
                     /\ Len(timings) = CeilDiv(count, BatchSizeOf(phase))
                     /\ Counted(timings) = count
               /\ \A k \in 1..Len(timings) : timings[k][2] \in 1..BatchSizeOf(phase)
               /\ (last.branch = phase /\ last.loop = "for")
                  => /\ last.i = Counted(timings)
                     /\ last.i < last.end
                     /\ last.end <= count
                     /\ last.j = last.done[phase])
    /\ [][last'.timings # last.timings
          => \E elapsed \in ElapsedNs :
                last'.timings = [last.timings EXCEPT ![last.branch] =
                                    Append(@, <<elapsed, last.done[last.branch] - last.i>>)]]_vars

(***************************************************************************)
(* The book of run at the scale of the source: warmup and the updates of   *)
(* benchmark_updates with the prices and quantities of benchmarks.rs, on   *)
(* the engine with MAX_LEVELS = 1024.  Each apply_update is one step; the  *)
(* batches and the clock, which the book does not see, are in BenchSpec.   *)
(***************************************************************************)
\* for i in 0..100
WARMUP_COUNT == 100

\* base_price = 100000
SOURCE_BASE_PRICE == 100000

\* the first ask of the warm-up, 100100
SOURCE_FIRST_ASK == 100100

\* the price step of the warm-up and of the ask update, 10
SOURCE_STEP == 10

\* the quantities 100 and 120
SOURCE_QUANTITY == 100
SOURCE_ASK_QUANTITY == 120

\* largest argument `iterations` followed at this scale
MaxTimedUpdates == 6

\* variant: the asks of the warm-up start at the base price
warmup_ask_from_base(i) == Set(SOURCE_BASE_PRICE + i * SOURCE_STEP, SOURCE_QUANTITY, "Ask")

\* the updates of iteration i of warmup
warmup_bid(i) == Set(SOURCE_BASE_PRICE + i * SOURCE_STEP, SOURCE_QUANTITY, "Bid")
warmup_ask(i) == Set(SOURCE_FIRST_ASK + i * SOURCE_STEP, SOURCE_QUANTITY, "Ask")

\* variant: the bid update carries the quantity of the ask update
timed_update_one_quantity(j) ==
    IF j % 2 = 0
    THEN Set(SOURCE_BASE_PRICE, SOURCE_ASK_QUANTITY, "Bid")
    ELSE Set(SOURCE_BASE_PRICE + SOURCE_STEP, SOURCE_ASK_QUANTITY, "Ask")

\* the update of index j of benchmark_updates: bid_update or ask_update
timed_update(j) ==
    IF j % 2 = 0
    THEN Set(SOURCE_BASE_PRICE, SOURCE_QUANTITY, "Bid")
    ELSE Set(SOURCE_BASE_PRICE + SOURCE_STEP, SOURCE_ASK_QUANTITY, "Ask")

\* the frame of run at the scale of the source, on entry
FullEntry(iterations) ==
    [type |-> "run at full scale", side |-> "Bid", branch |-> "warmup",
     iterations |-> iterations, i |-> 0, j |-> 0, update |-> None]

FullInit ==
    \E iterations \in 0..MaxTimedUpdates, checks \in BOOLEAN :
        /\ engine_is(new(checks))
        /\ last = FullEntry(iterations)

\* the first apply_update of iteration i of warmup
FullWarmupBid ==
    /\ last.branch = "warmup"
    /\ ~panicked
    /\ last.i < WARMUP_COUNT
    /\ last.side = "Bid"
    /\ Commit(apply_update(self, warmup_bid(last.i)))
    /\ last' = [last EXCEPT !.side = "Ask", !.update = Some(warmup_bid(last.i))]

\* the second apply_update of iteration i of warmup
FullWarmupAsk ==
    /\ last.branch = "warmup"
    /\ ~panicked
    /\ last.i < WARMUP_COUNT
    /\ last.side = "Ask"
    /\ Commit(apply_update(self, warmup_ask(last.i)))
    /\ last' = [last EXCEPT !.side = "Bid", !.i = last.i + 1,
                            !.update = Some(warmup_ask(last.i))]

\* warmup returns, benchmark_updates begins
FullWarmupEnd ==
    /\ last.branch = "warmup"
    /\ ~panicked
    /\ last.i >= WARMUP_COUNT
    /\ last' = [last EXCEPT !.branch = "updates", !.j = 0, !.update = None]
    /\ UNCHANGED engine

\* the apply_update of index j of benchmark_updates
FullTimedUpdate ==
    /\ last.branch = "updates"
    /\ ~panicked
    /\ last.j < last.iterations
    /\ Commit(apply_update(self, timed_update(last.j)))
    /\ last' = [last EXCEPT !.j = last.j + 1, !.side = timed_update(last.j).side,
                            !.update = Some(timed_update(last.j))]

\* benchmark_updates returns; the rest of run only reads the book
FullUpdatesEnd ==
    /\ last.branch = "updates"
    /\ ~panicked
    /\ last.j >= last.iterations
    /\ last' = [last EXCEPT !.branch = "queries", !.update = None]
    /\ UNCHANGED engine

FullNext ==
    \/ FullWarmupBid
    \/ FullWarmupAsk
    \/ FullWarmupEnd
    \/ FullTimedUpdate
    \/ FullUpdatesEnd

FullScaleSpec == FullInit /\ [][FullNext]_vars

\* C32: when warmup has returned on a new book, each side holds exactly 100
\* levels, each of quantity 100, and a total of 10000; the best bid is
\* 100990 and the best ask 100100, so that the book is crossed and
\* get_spread() is -890.
C32_WarmedBook ==
    (last.type = "run at full scale" /\ last.branch = "updates" /\ last.j = 0)
    => /\ ~panicked
       /\ \A sd \in Sides :
             /\ Len(Book(self, sd)) = 100
             /\ Cardinality(PricesOf(Book(self, sd))) = 100
             /\ \A k \in 1..Len(Book(self, sd)) : Book(self, sd)[k][2] = 100
             /\ get_total_quantity(self, sd) = 10000
       /\ get_best_bid(self) = Some(100990)
       /\ get_best_ask(self) = Some(100100)
       /\ get_best_bid(self)[1] > get_best_ask(self)[1]
       /\ ~get_spread_panics(self)
       /\ get_spread(self) = Some(0 - 890)

\* warmup has returned and the first timed update is next
C32_Witness ==
    /\ last.type = "run at full scale"
    /\ last.branch = "updates"
    /\ last.j = 0
    /\ last.iterations > 0
    /\ Len(bids) = WARMUP_COUNT
    /\ bids[1][1] > asks[1][1]

\* C33: in the timed update phase the book changes at most once. The first
\* ask update (index 1) inserts the level 100010 in front of the asks, makes
\* it the best ask with 100100 as second-best and adds its quantity to the
\* ask total; every other timed update meets its price with the quantity it
\* carries and leaves levels, caches and totals of both sides as they were.
C33_OneChange ==
    [][(last.branch = "updates" /\ last'.branch = "updates" /\ last'.j = last.j + 1)
       => LET u == timed_update(last.j) IN
          /\ ~panicked'
          /\ IF last.j = 1
             THEN /\ 100010 \notin PricesOf(asks)
                  /\ asks' = <<<<100010, 120>>>> \o asks
                  /\ best_ask' = Some(100010)
                  /\ second_best_ask' = Some(100100)
                  /\ total_ask_qty' = total_ask_qty + 120
                  /\ UNCHANGED <<bids, best_bid, second_best_bid, total_bid_qty>>
             ELSE /\ u.price \in PricesOf(Book(self, u.side))
                  /\ QuantityOf(Book(self, u.side), u.price) = u.quantity
                  /\ UNCHANGED book_of_run]_vars

\* bid and ask updates have both been applied again after the insertion
C33_Witness ==
    /\ last.type = "run at full scale"
    /\ last.branch = "queries"
    /\ last.j >= 4
    /\ Len(asks) = WARMUP_COUNT + 1
    /\ asks[1] = <<100010, 120>>
    /\ Len(bids) = WARMUP_COUNT

\* seq is in ascending order of elapsed / count
Ascending(seq) == \A a, b \in 1..Len(seq) : a < b => ~timing_lt(seq[b], seq[a])

\* seq and other hold the same timings, each as often
SameTimings(seq, other) ==
    /\ Len(seq) = Len(other)
    /\ \A a \in 1..Len(seq) :
          Cardinality({b \in 1..Len(seq) : seq[b] = seq[a]})
          = Cardinality({b \in 1..Len(other) : other[b] = seq[a]})

\* C34: for iterations >= 1 the lookups of run succeed, and the p50, p95 and
\* p99 it reports are the elements of index len / 2, len * 95 / 100 and
\* len * 99 / 100 of the per-batch update averages in ascending order: the
\* indices are below len, each value is a measured average, p50 <= p95 <= p99.
C34_Percentiles ==
    /\ (last.type = "run" /\ last.branch = "panicked") => last.iterations = 0
    /\ (last.type = "run" /\ last.branch = "returned")
       => LET timings == last.timings["updates"]
              len == Len(timings)
              sorted == sort_by(timings)
              r == last.result
          IN /\ last.iterations >= 1
             /\ len >= 1
             /\ Ascending(sorted)
             /\ SameTimings(sorted, timings)
             /\ \A index \in {len \div 2, (len * 95) \div 100, (len * 99) \div 100} :
                   index \in 0..len - 1
             /\ r.p50_update_ns = sorted[len \div 2 + 1]
             /\ r.p95_update_ns = sorted[(len * 95) \div 100 + 1]
             /\ r.p99_update_ns = sorted[(len * 99) \div 100 + 1]
             /\ \A v \in {r.p50_update_ns, r.p95_update_ns, r.p99_update_ns} :
                   \E k \in 1..len : timings[k] = v
             /\ ~timing_lt(r.p95_update_ns, r.p50_update_ns)
             /\ ~timing_lt(r.p99_update_ns, r.p95_update_ns)

\* run has returned percentiles of three batches measured in descending
\* order, with p50 below p95
C34_Witness ==
    /\ last.type = "run"
    /\ last.branch = "returned"
    /\ Len(last.timings["updates"]) = 3
    /\ timing_lt(last.timings["updates"][2], last.timings["updates"][1])
    /\ timing_lt(last.result.p50_update_ns, last.result.p95_update_ns)

\* C35: run fails for no value of iterations: neither its arithmetic nor
\* its percentile lookups panic, the latter not even with iterations = 0,
\* where no timing is recorded.
C35_RunNeverFails ==
    last.type = "run"
    => /\ ~panicked
       /\ last.branch # "panicked"

(***************************************************************************)
(* The WebSocket price server (src/rust-td 2/src/main.rs): the accept loop *)
(* of main, the producers' broadcasts and one handle_client task per       *)
(* connection.  last holds the shared counter behind the tokio Mutex, the  *)
(* holder of that Mutex, the updates broadcast so far, every task's        *)
(* position, filter and place in the broadcast channel, and what the step  *)
(* just taken wrote to a socket.  The counter is a u32 of scaled width;    *)
(* the channel keeps the newest CHANNEL_CAPACITY updates (100 in the       *)
(* source).  The order book engine is not involved.                        *)
(***************************************************************************)
MaxClients == 2
CHANNEL_CAPACITY == 1
MaxBroadcasts == 3
U32_MAX == 7

Clients == 1..MaxClients

\* the symbols the producers broadcast
AAPL == <<"A", "A", "P", "L">>
MSFT == <<"M", "S", "F", "T">>
Symbols == {AAPL, MSFT}

\* the literal of the statistics command
STATS == <<"/", "s", "t", "a", "t", "s">>

\* the text messages a client sends
Texts ==
    {<<"S", "U", "B", " ", "a", "a", "p", "l">>,
     <<"S", "U", "B", " ", "M", "S", "F", "T", " ">>,
     <<"s", "u", "b", " ", "a", "l", "l">>,
     <<"/", "S", "t", "a", "t", "s">>,
     <<"S", "U", "B">>}

\* what read.next() yields: a text, a close frame or the end of the stream,
\* a stream error, any other frame
Incoming ==
    {[frame |-> "Text", t |-> t] : t \in Texts}
        \cup {[frame |-> "Close", t |-> <<>>], [frame |-> "Err", t |-> <<>>],
              [frame |-> "Other", t |-> <<>>]}

\* u32 arithmetic of a build without overflow checks
u32_wrap(n) == (n + U32_MAX + 1) % (U32_MAX + 1)

\* the position a task waits at for the Mutex, and the position it holds it at
Holding ==
    [pc \in {"connect", "handshake_failed", "welcome_failed", "stats", "disconnect"} |->
        CASE pc = "connect" -> "increment"
          [] pc = "handshake_failed" -> "handshake_decrement"
          [] pc = "welcome_failed" -> "welcome_decrement"
          [] pc = "stats" -> "stats_read"
          [] pc = "disconnect" -> "decrement"]

task(c) == last.tasks[c]

\* the label of a filter in the "subscribed" message
label(filter) == IF filter = All THEN <<"A", "L", "L">> ELSE filter.sym

\* the match on the filter in the broadcast path: FALSE where it continues
passes(filter, symbol) == ~(filter.variant = "Symbol" /\ symbol # filter.sym)

\* the messages written to a client's socket
Written(c, kind, body) == Some([to |-> c, kind |-> kind, body |-> body])

ServerInit ==
    /\ engine_is(new(FALSE))
    /\ last = [type |-> "server", count |-> 0, lock |-> None, log |-> <<>>,
               tasks |-> [c \in Clients |-> [pc |-> "listening", filter |-> All, cursor |-> 0]],
               out |-> None]

\* a producer sends an update to the broadcast channel
Broadcast ==
    /\ Len(last.log) < MaxBroadcasts
    /\ \E symbol \in Symbols :
          last' = [last EXCEPT !.log = Append(@, symbol), !.out = None]
    /\ UNCHANGED engine

\* main accepts a connection, subscribes to the channel and spawns the task
Accept(c) ==
    /\ task(c).pc = "listening"
    /\ last' = [last EXCEPT !.tasks[c].pc = "peer_addr",
                            !.tasks[c].cursor = Len(last.log),
                            !.out = None]
    /\ UNCHANGED engine

\* stream.peer_addr(): the task returns on an error
PeerAddr(c) ==
    /\ task(c).pc = "peer_addr"
    /\ \E ok \in BOOLEAN :
          last' = [last EXCEPT !.tasks[c].pc = IF ok THEN "connect" ELSE "returned",
                               !.out = None]
    /\ UNCHANGED engine

\* clients.lock().await: the task goes on once the Mutex is free
Lock(c) ==
    /\ task(c).pc \in DOMAIN Holding
    /\ last.lock = None
    /\ last' = [last EXCEPT !.lock = Some(c),
                            !.tasks[c].pc = Holding[task(c).pc],
                            !.out = None]
    /\ UNCHANGED engine

\* *count += 1, and the guard is dropped
Increment(c) ==
    /\ task(c).pc = "increment"
    /\ last' = [last EXCEPT !.count = u32_wrap(@ + 1),
                            !.lock = None,
                            !.tasks[c].pc = "accept_async",
                            !.out = None]
    /\ UNCHANGED engine

\* accept_async(stream).await
Handshake(c) ==
    /\ task(c).pc = "accept_async"
    /\ \E ok \in BOOLEAN :
          last' = [last EXCEPT !.tasks[c].pc = IF ok THEN "welcome" ELSE "handshake_failed",
                               !.out = None]
    /\ UNCHANGED engine

\* variant of the handshake's error path that returns with the counter as it is
HandshakeFailed_without_decrement(c) ==
    /\ task(c).pc = "handshake_decrement"
    /\ last' = [last EXCEPT !.lock = None,
                            !.tasks[c].pc = "returned",
                            !.out = None]
    /\ UNCHANGED engine

\* the handshake failed: *count -= 1, return
HandshakeFailed(c) ==
    /\ task(c).pc = "handshake_decrement"
    /\ last' = [last EXCEPT !.count = u32_wrap(@ - 1),
                            !.lock = None,
                            !.tasks[c].pc = "returned",
                            !.out = None]
    /\ UNCHANGED engine

\* the welcome message is sent
Welcome(c) ==
    /\ task(c).pc = "welcome"
    /\ \E ok \in BOOLEAN :
          last' = [last EXCEPT !.tasks[c].pc = IF ok THEN "select" ELSE "welcome_failed",
                               !.out = IF ok THEN Written(c, "connected", <<>>) ELSE None]
    /\ UNCHANGED engine

\* the welcome message was not sent: *count -= 1, return
WelcomeFailed(c) ==
    /\ task(c).pc = "welcome_decrement"
    /\ last' = [last EXCEPT !.count = u32_wrap(@ - 1),
                            !.lock = None,
                            !.tasks[c].pc = "returned",
                            !.out = None]
    /\ UNCHANGED engine

\* the broadcast path of select!: rx.recv() yields the next update, which is
\* skipped or sent, or Err(Lagged) when the channel has dropped updates the
\* task has not received; the pattern Ok(update) then fails, the receiver
\* stands at the oldest update kept and the select! waits for read.next()
Recv(c) ==
    /\ task(c).pc = "select"
    /\ task(c).cursor < Len(last.log)
    /\ IF Len(last.log) - task(c).cursor > CHANNEL_CAPACITY
       THEN last' = [last EXCEPT !.tasks[c].cursor = Len(last.log) - CHANNEL_CAPACITY,
                                 !.tasks[c].pc = "read_next",
                                 !.out = None]
       ELSE LET update == last.log[task(c).cursor + 1]
            IN IF ~passes(task(c).filter, update)
               THEN last' = [last EXCEPT !.tasks[c].cursor = @ + 1, !.out = None]
               ELSE \E ok \in BOOLEAN :
                       last' = [last EXCEPT !.tasks[c].cursor = @ + 1,
                                            !.tasks[c].pc = IF ok THEN "select" ELSE "disconnect",
                                            !.out = IF ok THEN Written(c, "update", update)
                                                    ELSE None]
    /\ UNCHANGED engine

\* the incoming path of select!
Read(c) ==
    /\ task(c).pc \in {"select", "read_next"}
    /\ \E msg \in Incoming :
          LET trimmed == trim(msg.t)
              sub == parse_subscription(trimmed)
          IN IF msg.frame = "Text"
             THEN IF eq_ignore_ascii_case(trimmed, STATS)
                  THEN last' = [last EXCEPT !.tasks[c].pc = "stats", !.out = None]
                  ELSE IF sub # None
                       THEN last' = [last EXCEPT !.tasks[c].filter = sub[1],
                                                 !.tasks[c].pc = "select",
                                                 !.out = Written(c, "subscribed", label(sub[1]))]
                       ELSE last' = [last EXCEPT !.tasks[c].pc = "select", !.out = None]
             ELSE IF msg.frame \in {"Close", "Err"}
                  THEN last' = [last EXCEPT !.tasks[c].pc = "disconnect", !.out = None]
                  ELSE last' = [last EXCEPT !.tasks[c].pc = "select", !.out = None]
    /\ UNCHANGED engine

\* "/stats": the counter is read, the guard dropped and the answer sent
Stats(c) ==
    /\ task(c).pc = "stats_read"
    /\ last' = [last EXCEPT !.lock = None,
                            !.tasks[c].pc = "select",
                            !.out = Written(c, "stats", last.count)]
    /\ UNCHANGED engine

\* after the loop: *count -= 1, and the task ends
Disconnect(c) ==
    /\ task(c).pc = "decrement"
    /\ last' = [last EXCEPT !.count = u32_wrap(@ - 1),
                            !.lock = None,
                            !.tasks[c].pc = "returned",
                            !.out = None]
    /\ UNCHANGED engine

ServerNext ==
    \/ Broadcast
    \/ \E c \in Clients :
          \/ Accept(c)
          \/ PeerAddr(c)
          \/ Lock(c)
          \/ Increment(c)
          \/ Handshake(c)
          \/ HandshakeFailed(c)
          \/ Welcome(c)
          \/ WelcomeFailed(c)
          \/ Recv(c)
          \/ Read(c)
          \/ Stats(c)
          \/ Disconnect(c)

ServerSpec == ServerInit /\ [][ServerNext]_vars

\* the positions of a task between its increment and its decrement
Counted_Positions ==
    {"accept_async", "handshake_failed", "handshake_decrement", "welcome",
     "welcome_failed", "welcome_decrement", "select", "read_next", "stats",
     "stats_read", "disconnect", "decrement"}

\* the task has passed the connect increment and has not yet left
Active(c) == task(c).pc \in Counted_Positions

\* the tasks spawned so far have all returned
AllDisconnected ==
    /\ \E c \in Clients : task(c).pc = "returned"
    /\ \A c \in Clients : task(c).pc \in {"listening", "returned"}

\* C36: under every interleaving of the handle_client tasks the shared counter
\* is the number of tasks that have passed the connect increment and not yet
\* left: a task is counted by its increment alone, a counted task leaves by
\* one decrement of a positive counter on each of its exit paths and is never
\* counted again, a task that returns before the increment leaves the counter
\* alone, nothing else changes the counter, and the counter is 0 when all
\* clients have disconnected.
C36_CounterIsActiveTasks ==
    /\ [](/\ last.count = Cardinality({c \in Clients : Active(c)})
          /\ AllDisconnected => last.count = 0
          /\ \A c \in Clients :
                task(c).pc \in {"handshake_decrement", "welcome_decrement", "decrement"}
                => (last.count > 0 /\ last.lock = Some(c)))
    /\ [][/\ \A c \in Clients :
                /\ (~Active(c) /\ Active(c)')
                   => (task(c).pc = "increment" /\ last'.count = last.count + 1)
                /\ (Active(c) /\ ~Active(c)')
                   => /\ task(c).pc \in {"handshake_decrement", "welcome_decrement", "decrement"}
                      /\ last'.tasks[c].pc = "returned"
                      /\ last'.count = last.count - 1
                /\ (task(c).pc = "peer_addr" /\ last'.tasks[c].pc = "returned")
                   => last'.count = last.count
                /\ task(c).pc = "returned" => last'.tasks[c].pc = "returned"
          /\ last'.count # last.count => \E c \in Clients : Active(c) # Active(c)']_vars

\* every task has been spawned and has returned, one of them after a
\* subscription in its loop, and the counter is back at 0
C36_Witness ==
    /\ last.type = "server"
    /\ AllDisconnected
    /\ last.count = 0
    /\ \A c \in Clients : task(c).pc = "returned"
    /\ \E c \in Clients : task(c).filter # All

\* the positions of a task before its loop
Before_Loop ==
    {"listening", "peer_addr", "connect", "increment", "accept_async", "handshake_failed",
     "handshake_decrement", "welcome", "welcome_failed", "welcome_decrement"}

\* C37: the filter is per client.  A client enters its loop with the filter
\* All; it receives every update broadcast since it connected, one after the
\* other, each sent to it when its filter is All or names the update's symbol
\* and not sent otherwise (a failed send ends the loop); an update sent to a
\* client passes that client's filter; the filter changes only when the
\* client's own valid SUB command is handled, to the subscription the command
\* parses to; and a step that changes one client's filter or sends it an
\* update leaves every other client's task as it was.
C37_PerClientFilter ==
    /\ [](\A c \in Clients :
            /\ task(c).pc \in Before_Loop => task(c).filter = All
            /\ \A symbol \in Symbols :
                  last.out = Written(c, "update", symbol)
                  => task(c).filter \in {All, Symbol(symbol)})
    /\ [][\A c \in Clients :
            /\ (task(c).pc # "listening" /\ last'.tasks[c].cursor # task(c).cursor)
               => /\ last'.tasks[c].cursor = task(c).cursor + 1
                  /\ LET update == last.log[task(c).cursor + 1]
                     IN IF task(c).filter \in {All, Symbol(update)}
                        THEN \/ last'.out = Written(c, "update", update)
                             \/ last'.tasks[c].pc = "disconnect"
                        ELSE last'.out = None
            /\ last'.tasks[c].filter # task(c).filter
               => /\ last'.out = Written(c, "subscribed", label(last'.tasks[c].filter))
                  /\ \E t \in Texts : parse_subscription(t) = Some(last'.tasks[c].filter)
            /\ (last'.tasks[c] # task(c) \/ (last'.out # None /\ last'.out[1].to = c))
               => \A d \in Clients \ {c} : last'.tasks[d] = task(d)]_vars

(***************************************************************************)
(* The log analyser (src/rust-td 3/loglyzer/src/main.rs): analyze_logs as  *)
(* an operator, analyze_logs_parallel as the steps of the rayon workers    *)
(* that share its entries.  last holds the entries, the three maps behind  *)
(* their Mutexes and the Mutexes' holders, every worker's position, entry  *)
(* and the count it has read, and the result.  A map is a function from    *)
(* the keys present to their counts.  The order book engine is not         *)
(* involved.                                                               *)
(***************************************************************************)
MaxEntries == 3
MaxWorkers == 2
DEFAULT_TOP == 5

Workers == 1..MaxWorkers

\* enum LogLevel
LogLevel(variant) == [variant |-> variant]

\* format!("{:?}", level)
format_debug(level) == level.variant

\* the entries a list is drawn from: date and time, a date alone, a time part
\* of one character
LogEntries ==
    {[timestamp |-> <<"d", " ", "1", "0", ":">>, level |-> LogLevel("Info"), message |-> "a"],
     [timestamp |-> <<"d", " ", "1", "1", ":">>, level |-> LogLevel("Warning"), message |-> "b"],
     [timestamp |-> <<"d", " ", "1", "0", ":">>, level |-> LogLevel("Error"), message |-> "a"],
     [timestamp |-> <<"d", "\t", " ", "1", "1", ":">>, level |-> LogLevel("Error"), message |-> "b"],
     [timestamp |-> <<"d">>, level |-> LogLevel("Error"), message |-> "a"],
     [timestamp |-> <<"d", " ", "1">>, level |-> LogLevel("Error"), message |-> "b"]}

\* the lists of at most n entries
RECURSIVE Lists(_)
Lists(n) ==
    IF n = 0 THEN {<<>>}
    ELSE Lists(n - 1) \cup {Append(l, e) : l \in {l \in Lists(n - 1) : Len(l) = n - 1}, e \in LogEntries}

\* the first word of str and what follows it
RECURSIVE word_end(_, _)
word_end(str, k) ==
    IF k <= Len(str) /\ ~is_whitespace(str[k]) THEN word_end(str, k + 1) ELSE k

\* str::split_whitespace
RECURSIVE split_whitespace(_)
split_whitespace(str) ==
    LET s == trim_start(str)
        k == word_end(s, 1)
    IN IF s = <<>> THEN <<>>
       ELSE <<SubSeq(s, 1, k - 1)>> \o split_whitespace(SubSeq(s, k, Len(s)))

\* Iterator::nth
nth(seq, n) == IF n + 1 <= Len(seq) THEN Some(seq[n + 1]) ELSE None

\* entry.timestamp.split_whitespace().nth(1)
timepart(entry) == nth(split_whitespace(entry.timestamp), 1)

\* &timepart[0..2] panics on a time part shorter than two bytes
slice_panics(tp) == Len(tp) < 2
hour_of(tp) == SubSeq(tp, 1, 2)

\* map.get(key), 0 standing for a missing key
count_of(map, key) == IF key \in DOMAIN map THEN map[key] ELSE 0

\* the map with key set to count
inserted(map, key, count) == [k \in DOMAIN map \cup {key} |-> IF k = key THEN count ELSE map[k]]

\* *map.entry(key).or_insert(0) += 1
or_insert_add(map, key) == inserted(map, key, count_of(map, key) + 1)

EmptyMap == [k \in {} |-> 0]

\* the loop of analyze_logs from entry k on
RECURSIVE analyze_from(_, _, _)
analyze_from(entries, k, acc) ==
    IF k > Len(entries) \/ acc.panicked THEN acc
    ELSE LET entry == entries[k]
             counted == [acc EXCEPT !.by_level = or_insert_add(@, format_debug(entry.level))]
             tp == timepart(entry)
         IN IF entry.level # LogLevel("Error") THEN analyze_from(entries, k + 1, counted)
            ELSE LET messages == [counted EXCEPT !.error_messages = or_insert_add(@, entry.message)]
                 IN IF tp = None THEN analyze_from(entries, k + 1, messages)
                    ELSE IF slice_panics(tp[1])
                         THEN [messages EXCEPT !.panicked = TRUE]
                         ELSE analyze_from(entries, k + 1,
                                  [messages EXCEPT !.errors_by_hour = or_insert_add(@, hour_of(tp[1]))])

\* analyze_logs up to the choice of its top errors
analyze_logs(entries) ==
    LET acc == analyze_from(entries, 1, [by_level |-> EmptyMap, error_messages |-> EmptyMap,
                                         errors_by_hour |-> EmptyMap, panicked |-> FALSE])
    IN [total_entries |-> Len(entries), by_level |-> acc.by_level,
        error_messages |-> acc.error_messages, errors_by_hour |-> acc.errors_by_hour,
        panicked |-> acc.panicked]

\* the orders HashMap::into_iter may yield the keys of a map in
Orders(map) ==
    {order \in [1..Cardinality(DOMAIN map) -> DOMAIN map] :
        \A i, j \in DOMAIN order : i # j => order[i] # order[j]}

\* top_errors.sort_by(|a, b| b.count.cmp(&a.count)): stable, largest count first
RECURSIVE sort_by_count(_)
sort_by_count(errors) ==
    IF errors = <<>> THEN <<>>
    ELSE LET sorted == sort_by_count(SubSeq(errors, 1, Len(errors) - 1))
             x == errors[Len(errors)]
             k == Cardinality({i \in DOMAIN sorted : sorted[i].count >= x.count})
         IN SubSeq(sorted, 1, k) \o <<x>> \o SubSeq(sorted, k + 1, Len(sorted))

\* Vec::truncate
truncate(seq, limit) == IF Len(seq) > limit THEN SubSeq(seq, 1, limit) ELSE seq

\* top_n.unwrap_or(5)
limit_of(top_n) == IF top_n = None THEN DEFAULT_TOP ELSE top_n[1]

worker(w) == last.workers[w]
entry_of(w) == last.entries[worker(w).entry]

\* variant of the Mutex that never makes a worker wait
is_free_always(mutex) == TRUE

\* Mutex::lock returns once no other worker holds the guard
is_free(mutex) == last.locks[mutex] = None

AnalyzeInit ==
    /\ engine_is(new(FALSE))
    /\ \E entries \in Lists(MaxEntries) :
          last = [type |-> "analyze_logs_parallel", branch |-> "for_each",
                  entries |-> entries, top_n |-> None, claimed |-> {},
                  locks |-> [mutex \in {"by_level", "error_messages", "errors_by_hour"} |-> None],
                  by_level |-> EmptyMap, error_messages |-> EmptyMap, errors_by_hour |-> EmptyMap,
                  workers |-> [w \in Workers |-> [pc |-> "idle", entry |-> 0, read |-> 0]],
                  result |-> None]

\* rayon hands an entry no worker has taken to an idle worker
Take(w) ==
    /\ last.branch = "for_each"
    /\ worker(w).pc = "idle"
    /\ \E i \in DOMAIN last.entries \ last.claimed :
          last' = [last EXCEPT !.claimed = @ \cup {i},
                               !.workers[w] = [pc |-> "lock_by_level", entry |-> i, read |-> 0]]
    /\ UNCHANGED engine

\* by_level.lock().unwrap()
LockByLevel(w) ==
    /\ last.branch = "for_each"
    /\ worker(w).pc = "lock_by_level"
    /\ is_free("by_level")
    /\ last' = [last EXCEPT !.locks["by_level"] = Some(w), !.workers[w].pc = "read_level"]
    /\ UNCHANGED engine

\* bl.entry(level).or_insert(0): the count is read
ReadLevel(w) ==
    /\ last.branch = "for_each"
    /\ worker(w).pc = "read_level"
    /\ last' = [last EXCEPT !.workers[w].read = count_of(last.by_level, format_debug(entry_of(w).level)),
                            !.workers[w].pc = "write_level"]
    /\ UNCHANGED engine

\* += 1: the count is written; an entry that is no error is done
WriteLevel(w) ==
    /\ last.branch = "for_each"
    /\ worker(w).pc = "write_level"
    /\ last' = [last EXCEPT !.by_level = inserted(@, format_debug(entry_of(w).level), worker(w).read + 1),
                            !.workers[w].pc = IF entry_of(w).level = LogLevel("Error")
                                              THEN "lock_error_messages" ELSE "drop"]
    /\ UNCHANGED engine

\* error_messages.lock().unwrap()
LockErrorMessages(w) ==
    /\ last.branch = "for_each"
    /\ worker(w).pc = "lock_error_messages"
    /\ is_free("error_messages")
    /\ last' = [last EXCEPT !.locks["error_messages"] = Some(w), !.workers[w].pc = "read_message"]
    /\ UNCHANGED engine

ReadMessage(w) ==
    /\ last.branch = "for_each"
    /\ worker(w).pc = "read_message"
    /\ last' = [last EXCEPT !.workers[w].read = count_of(last.error_messages, entry_of(w).message),
                            !.workers[w].pc = "write_message"]
    /\ UNCHANGED engine

WriteMessage(w) ==
    /\ last.branch = "for_each"
    /\ worker(w).pc = "write_message"
    /\ last' = [last EXCEPT !.error_messages = inserted(@, entry_of(w).message, worker(w).read + 1),
                            !.workers[w].pc = "lock_errors_by_hour"]
    /\ UNCHANGED engine

\* errors_by_hour.lock().unwrap(), then the time part: none ends the entry, a
\* short one panics with the three guards held, which ends the call
LockErrorsByHour(w) ==
    /\ last.branch = "for_each"
    /\ worker(w).pc = "lock_errors_by_hour"
    /\ is_free("errors_by_hour")
    /\ LET tp == timepart(entry_of(w))
       IN IF tp # None /\ slice_panics(tp[1])
          THEN last' = [last EXCEPT !.locks["errors_by_hour"] = Some(w),
                                    !.workers[w].pc = "panicked",
                                    !.branch = "panicked"]
          ELSE last' = [last EXCEPT !.locks["errors_by_hour"] = Some(w),
                                    !.workers[w].pc = IF tp = None THEN "drop" ELSE "read_hour"]
    /\ UNCHANGED engine

ReadHour(w) ==
    /\ last.branch = "for_each"
    /\ worker(w).pc = "read_hour"
    /\ last' = [last EXCEPT !.workers[w].read =
                                count_of(last.errors_by_hour, hour_of(timepart(entry_of(w))[1])),
                            !.workers[w].pc = "write_hour"]
    /\ UNCHANGED engine

WriteHour(w) ==
    /\ last.branch = "for_each"
    /\ worker(w).pc = "write_hour"
    /\ last' = [last EXCEPT !.errors_by_hour =
                                inserted(@, hour_of(timepart(entry_of(w))[1]), worker(w).read + 1),
                            !.workers[w].pc = "drop"]
    /\ UNCHANGED engine

\* the closure ends: its guards are dropped
DropGuards(w) ==
    /\ last.branch = "for_each"
    /\ worker(w).pc = "drop"
    /\ last' = [last EXCEPT !.locks = [mutex \in DOMAIN @ |-> IF @[mutex] = Some(w) THEN None ELSE @[mutex]],
                            !.workers[w] = [pc |-> "idle", entry |-> 0, read |-> 0]]
    /\ UNCHANGED engine

\* for_each has returned: the maps are taken out of their Mutexes, the errors
\* collected in the map's order, sorted and truncated to the limit of the
\* call's top_n
Join ==
    /\ last.branch = "for_each"
    /\ last.claimed = DOMAIN last.entries
    /\ \A w \in Workers : worker(w).pc = "idle"
    /\ \E order \in Orders(last.error_messages), top_n \in {None, Some(1)} :
          LET errors == [i \in DOMAIN order |->
                            [message |-> order[i], count |-> last.error_messages[order[i]]]]
          IN last' = [last EXCEPT
                         !.branch = "returned",
                         !.top_n = top_n,
                         !.result = Some([total_entries |-> Len(last.entries),
                                          by_level |-> last.by_level,
                                          top_errors |-> truncate(sort_by_count(errors), limit_of(top_n)),
                                          errors_by_hour |-> last.errors_by_hour])]
    /\ UNCHANGED engine

AnalyzeNext ==
    \/ Join
    \/ \E w \in Workers :
          \/ Take(w)
          \/ LockByLevel(w)
          \/ ReadLevel(w)
          \/ WriteLevel(w)
          \/ LockErrorMessages(w)
          \/ ReadMessage(w)
          \/ WriteMessage(w)
          \/ LockErrorsByHour(w)
          \/ ReadHour(w)
          \/ WriteHour(w)
          \/ DropGuards(w)

AnalyzeSpec == AnalyzeInit /\ [][AnalyzeNext]_vars

\* C38: for every list of entries and every interleaving of the workers,
\* analyze_logs_parallel returns exactly when analyze_logs does, and then with
\* the same total_entries, the same by_level counts, the same errors_by_hour
\* counts and the same count for every error message, its top errors being
\* distinct messages with those counts, largest first, as many as the limit
\* allows; while the workers run, some worker can take a step or the call can
\* return (every step moving a worker on or taking an entry, a run that could
\* stall would reach a state where none can).
C38_ParallelMatchesSequential ==
    LET sequential == analyze_logs(last.entries)
    IN /\ last.branch = "returned"
          => LET result == last.result[1]
             IN /\ ~sequential.panicked
                /\ result.total_entries = sequential.total_entries
                /\ result.by_level = sequential.by_level
                /\ result.errors_by_hour = sequential.errors_by_hour
                /\ last.error_messages = sequential.error_messages
                /\ Len(result.top_errors)
                      = IF Cardinality(DOMAIN sequential.error_messages) > limit_of(last.top_n)
                        THEN limit_of(last.top_n)
                        ELSE Cardinality(DOMAIN sequential.error_messages)
                /\ \A i \in DOMAIN result.top_errors :
                      /\ result.top_errors[i].message \in DOMAIN sequential.error_messages
                      /\ result.top_errors[i].count
                            = sequential.error_messages[result.top_errors[i].message]
                      /\ \A j \in DOMAIN result.top_errors :
                            /\ i < j => result.top_errors[i].count >= result.top_errors[j].count
                            /\ i # j => result.top_errors[i].message # result.top_errors[j].message
                      /\ \A message \in DOMAIN sequential.error_messages :
                            sequential.error_messages[message] > result.top_errors[i].count
                            => \E j \in DOMAIN result.top_errors :
                                  result.top_errors[j].message = message
       /\ last.branch = "panicked" => sequential.panicked
       /\ last.branch = "for_each" => ENABLED AnalyzeNext

\* three entries, all errors, two of them with the same message and two in
\* the same hour, have been analysed by the workers and the call has returned
C38_Witness ==
    /\ last.type = "analyze_logs_parallel"
    /\ last.branch = "returned"
    /\ Len(last.entries) = 3
    /\ count_of(last.result[1].by_level, "Error") = 3
    /\ \E message \in DOMAIN last.error_messages : last.error_messages[message] = 2
    /\ \E hour \in DOMAIN last.result[1].errors_by_hour : last.result[1].errors_by_hour[hour] = 2
    /\ Len(last.result[1].top_errors) = 1

====
